---- MODULE Spec2Model ----
(***************************************************************************)
(* Rhizome Atlas: the holon dependency manager.                            *)
(*                                                                         *)
(* pkg/modfile (holon.mod / holon.sum parsing and writing) and the         *)
(* operations of internal/server (Init, Add, Remove, ...) over a project   *)
(* directory and the machine-wide cache.                                   *)
(*                                                                         *)
(* Text files are sequences of lines.  A line is the sequence of the       *)
(* strings its Fprintf wrote, separated by single spaces; a string is      *)
(* either empty or free of white space unless stated otherwise.            *)
(***************************************************************************)
EXTENDS Integers, Sequences, FiniteSets, TLC

VARIABLES
    modFile,   \* <dir>/holon.mod : NoFile or its lines
    sumFile,   \* <dir>/holon.sum : NoFile or its lines
    cache,     \* ~/.holon/cache  : [directory -> NoDir or the files below it]
    vendor,    \* <dir>/.holon    : [directory -> NoDir or the files below it]
    resp,      \* the last request served and its response
    mod,       \* a *modfile.ModFile held by a caller of pkg/modfile
    sum,       \* a *modfile.SumFile held by a caller of pkg/modfile
    call       \* the last pkg/modfile call made on mod / sum and its result

vars == <<modFile, sumFile, cache, vendor, resp, mod, sum, call>>

(***************************************************************************)
(* Bounds of the model.                                                    *)
(***************************************************************************)
MaxReq == 2      \* longest Require list
MaxSum == 3      \* longest SumFile.Entries list

(***************************************************************************)
(* Strings.                                                                *)
(***************************************************************************)

\* Every string the model compares with Go's "<", in ascending byte order.
StrOrder ==
    << "", "(", ")", ".git/HEAD", "//c", "=>", "HOLON.md", "a", "ab", "aba", "b", "ba", "holon",
       "holon.mod",
       "l", "main", "main/HOLON.md", "o/a", "r", "replace", "require", "s", "src",
       "v1", "v1.2.0", "v1.2.0/HOLON.md", "v1.3.0", "v1.3.0/HOLON.md",
       "v1/HOLON.md", "v2", "v2/HOLON.md" >>

Rank(s) == CHOOSE i \in 1..Len(StrOrder) : StrOrder[i] = s

\* s < t on Go strings (byte-wise lexical order).
StrLess(s, t) == Rank(s) < Rank(t)

\* strings.HasPrefix(tok, "//") for the strings of the model.
HasSlashPrefix(tok) == tok \in {"//c"}

\* strings.Fields(line): the non-empty white-space separated fields.
Fields(line) == SelectSeq(line, LAMBDA t : t # "")

\* The fields of a trimmed line joined back by the single spaces between them.
RECURSIVE JoinSp(_)
JoinSp(f) ==
    IF f = <<>> THEN ""
    ELSE IF Len(f) = 1 THEN f[1]
    ELSE f[1] \o " " \o JoinSp(Tail(f))

\* A path of the file system that holds no file, and a file of these lines.
NoFile == [exists |-> FALSE, lines |-> <<>>]

File(lines) == [exists |-> TRUE, lines |-> lines]

(***************************************************************************)
(* pkg/modfile : holon.mod                                                 *)
(***************************************************************************)

Require(path, version) == [Path |-> path, Version |-> version]

Replace(old, localPath) == [Old |-> old, LocalPath |-> localPath]

\* &ModFile{HolonPath: holonPath}
ModFile(holonPath) == [HolonPath |-> holonPath, Require |-> <<>>, Replace |-> <<>>]

\* One iteration of Parse's scanner loop; st = [mod, inBlock, err].
ParseLine(st, raw) ==
    LET line == Fields(raw)    \* strings.TrimSpace(scanner.Text()), field by field
    IN
    IF st.err THEN st
    ELSE IF line = <<>> \/ HasSlashPrefix(line[1]) THEN st
    ELSE IF line = <<")">> THEN [st EXCEPT !.inBlock = ""]
    ELSE IF line = <<"require", "(">> THEN [st EXCEPT !.inBlock = "require"]
    ELSE IF line = <<"replace", "(">> THEN [st EXCEPT !.inBlock = "replace"]
    ELSE IF Len(line) >= 2 /\ line[1] = "holon"
         THEN [st EXCEPT !.mod.HolonPath = JoinSp(Tail(line))]
    ELSE IF st.inBlock = "require"
         THEN IF Len(line) # 2
              THEN [st EXCEPT !.err = TRUE]
              ELSE [st EXCEPT !.mod.Require = Append(@, Require(line[1], line[2]))]
    ELSE IF st.inBlock = "replace"
         THEN LET arrows == {i \in 2..(Len(line) - 1) : line[i] = "=>"}
              IN  IF arrows = {}
                  THEN [st EXCEPT !.err = TRUE]
                  ELSE LET i == CHOOSE k \in arrows : \A j \in arrows : k <= j
                       IN  [st EXCEPT !.mod.Replace =
                               Append(@, Replace(JoinSp(SubSeq(line, 1, i - 1)),
                                                 JoinSp(SubSeq(line, i + 1, Len(line)))))]
    ELSE st

RECURSIVE ParseLines(_, _)
ParseLines(st, lines) ==
    IF lines = <<>> THEN st
    ELSE ParseLines(ParseLine(st, Head(lines)), Tail(lines))

\* modfile.Parse on the contents of a file: [ok, mod].
Parse(file) ==
    IF ~file.exists
    THEN [ok |-> FALSE, mod |-> ModFile("")]
    ELSE LET st == ParseLines([mod |-> ModFile(""), inBlock |-> "", err |-> FALSE],
                              file.lines)
         IN  [ok |-> ~st.err, mod |-> st.mod]

\* The lines (*ModFile).Write prints.
ModFileLines(m) ==
    << <<"holon", m.HolonPath>> >>
    \o (IF Len(m.Require) > 0
        THEN << <<>>, <<"require", "(">> >>
             \o [i \in 1..Len(m.Require) |-> <<m.Require[i].Path, m.Require[i].Version>>]
             \o << <<")">> >>
        ELSE <<>>)
    \o (IF Len(m.Replace) > 0
        THEN << <<>>, <<"replace", "(">> >>
             \o [i \in 1..Len(m.Replace) |->
                    <<m.Replace[i].Old, "=>", m.Replace[i].LocalPath>>]
             \o << <<")">> >>
        ELSE <<>>)

\* (*ModFile).Write: the file created.
ModFileWrite(m) == File(ModFileLines(m))

\* Index of the first requirement with this path, 0 when there is none.
FirstRequire(m, path) ==
    LET hits == {i \in 1..Len(m.Require) : m.Require[i].Path = path}
    IN  IF hits = {} THEN 0 ELSE CHOOSE i \in hits : \A j \in hits : i <= j

\* AddRequire without the search for an existing entry.
AddRequireAppends(m, path, version) ==
    [mod |-> [m EXCEPT !.Require = Append(@, Require(path, version))], ret |-> TRUE]

\* AddRequire that forgets the requirements of the other paths.
AddRequireAlone(m, path, version) ==
    [mod |-> [m EXCEPT !.Require = <<Require(path, version)>>],
     ret |-> FirstRequire(m, path) = 0]

\* (*ModFile).AddRequire: [mod, ret], ret = TRUE when added, FALSE when updated.
AddRequire(m, path, version) ==
    LET i == FirstRequire(m, path)
    IN  IF i # 0
        THEN [mod |-> [m EXCEPT !.Require[i].Version = version], ret |-> FALSE]
        ELSE [mod |-> [m EXCEPT !.Require = Append(@, Require(path, version))],
              ret |-> TRUE]

\* RemoveRequire that keeps m.Require[:i] only.
RemoveRequireTruncates(m, path) ==
    LET i == FirstRequire(m, path)
    IN  IF i # 0
        THEN [mod |-> [m EXCEPT !.Require = SubSeq(@, 1, i - 1)], ret |-> TRUE]
        ELSE [mod |-> m, ret |-> FALSE]

\* (*ModFile).RemoveRequire: [mod, ret], ret = TRUE when found.
RemoveRequire(m, path) ==
    LET i == FirstRequire(m, path)
    IN  IF i # 0
        THEN [mod |-> [m EXCEPT !.Require =
                          SubSeq(@, 1, i - 1) \o SubSeq(@, i + 1, Len(@))],
              ret |-> TRUE]
        ELSE [mod |-> m, ret |-> FALSE]

\* (*ModFile).ResolvedPath
ResolvedPath(m, depPath) ==
    LET hits == {i \in 1..Len(m.Replace) : m.Replace[i].Old = depPath}
    IN  IF hits = {} THEN ""
        ELSE m.Replace[CHOOSE i \in hits : \A j \in hits : i <= j].LocalPath

(***************************************************************************)
(* pkg/modfile : holon.sum                                                 *)
(***************************************************************************)

SumEntry(path, version, hash) == [Path |-> path, Version |-> version, Hash |-> hash]

\* &SumFile{}
SumFile == [Entries |-> <<>>]

\* One iteration of ParseSum's scanner loop; st = [sum, err].
ParseSumLine(st, raw) ==
    LET parts == Fields(raw)
    IN
    IF st.err THEN st
    ELSE IF parts = <<>> THEN st
    ELSE IF Len(parts) # 3 THEN [st EXCEPT !.err = TRUE]
    ELSE [st EXCEPT !.sum.Entries = Append(@, SumEntry(parts[1], parts[2], parts[3]))]

RECURSIVE ParseSumLines(_, _)
ParseSumLines(st, lines) ==
    IF lines = <<>> THEN st
    ELSE ParseSumLines(ParseSumLine(st, Head(lines)), Tail(lines))

\* modfile.ParseSum on the contents of a file: [ok, sum]; a missing file is an
\* empty SumFile.
ParseSum(file) ==
    IF ~file.exists
    THEN [ok |-> TRUE, sum |-> SumFile]
    ELSE LET st == ParseSumLines([sum |-> SumFile, err |-> FALSE], file.lines)
         IN  [ok |-> ~st.err, sum |-> st.sum]

\* A less function that compares the paths only.
EntryLessByPath(x, y) == StrLess(x.Path, y.Path)

\* The less function handed to sort.Slice by (*SumFile).Write.
EntryLess(x, y) ==
    IF x.Path # y.Path THEN StrLess(x.Path, y.Path)
    ELSE StrLess(x.Version, y.Version)

\* e inserted into the sorted sequence es, after the entries not greater than it.
RECURSIVE InsertEntry(_, _)
InsertEntry(es, e) ==
    IF es = <<>> THEN <<e>>
    ELSE IF EntryLess(e, Head(es)) THEN <<e>> \o es
    ELSE <<Head(es)>> \o InsertEntry(Tail(es), e)

\* sort.Slice(s.Entries, less).  The order sort.Slice gives to entries of equal
\* (Path, Version) is unspecified; every list sorted here has distinct keys.
RECURSIVE SortEntries(_)
SortEntries(es) ==
    IF es = <<>> THEN <<>>
    ELSE InsertEntry(SortEntries(SubSeq(es, 1, Len(es) - 1)), es[Len(es)])

\* (*SumFile).Write: [sum, file]; s.Entries is sorted in place, then written.
SumFileWrite(s) ==
    LET sorted == SortEntries(s.Entries)
    IN  [sum  |-> [s EXCEPT !.Entries = sorted],
         file |-> File([i \in 1..Len(sorted) |->
                          <<sorted[i].Path, sorted[i].Version, sorted[i].Hash>>])]

\* Index of the first entry with this path and version, 0 when there is none.
FirstEntry(s, path, version) ==
    LET hits == {i \in 1..Len(s.Entries) :
                    s.Entries[i].Path = path /\ s.Entries[i].Version = version}
    IN  IF hits = {} THEN 0 ELSE CHOOSE i \in hits : \A j \in hits : i <= j

\* Set without the search for an existing entry.
SetAppends(s, path, version, hash) ==
    [s EXCEPT !.Entries = Append(@, SumEntry(path, version, hash))]

\* (*SumFile).Set
Set(s, path, version, hash) ==
    LET i == FirstEntry(s, path, version)
    IN  IF i # 0
        THEN [s EXCEPT !.Entries[i].Hash = hash]
        ELSE [s EXCEPT !.Entries = Append(@, SumEntry(path, version, hash))]

\* (*SumFile).Lookup
Lookup(s, path, version) ==
    LET i == FirstEntry(s, path, version)
    IN  IF i # 0 THEN s.Entries[i].Hash ELSE ""

(***************************************************************************)
(* Callers of pkg/modfile: a ModFile value and the calls made on it.       *)
(***************************************************************************)

\* Strings that are non-empty and free of white space.
Tokens == {StrOrder[i] : i \in 1..Len(StrOrder)} \ {""}

ModPaths    == {"a", "b", "holon"}
ModVersions == {"v1", "v2", ""}

RequireLists(paths, versions) ==
    UNION {[1..n -> {Require(p, v) : p \in paths, v \in versions}] : n \in 0..MaxReq}

ReplaceLists ==
    { <<>>,
      <<Replace("a", "l")>>,
      <<Replace("a", "l"), Replace("b", "s")>>,
      <<Replace("b", "s"), Replace("a", "l")>>,
      <<Replace("holon", "l")>> }

\* ModFile literals a caller starts from (TestAddRemoveRequire builds one).
InitMods ==
    {[HolonPath |-> "r", Require |-> rq, Replace |-> rp] :
        rq \in RequireLists({"a", "b", "//c"}, {"v1"}), rp \in ReplaceLists}

ModCall(op, path, version, ret, before, parsed) ==
    [op |-> op, path |-> path, version |-> version, ret |-> ret,
     before |-> before, parsed |-> parsed]

IdleServer ==
    /\ modFile = NoFile
    /\ sumFile = NoFile
    /\ cache = <<>>
    /\ vendor = <<>>
    /\ resp = [op |-> "none"]

InitMod ==
    /\ IdleServer
    /\ mod \in InitMods
    /\ sum = SumFile
    /\ call = ModCall("new", "", "", TRUE, mod, FALSE)

\* mod.AddRequire(path, version)
CallAddRequire(path, version) ==
    LET r == AddRequire(mod, path, version)
    IN  /\ Len(r.mod.Require) <= MaxReq
        /\ mod' = r.mod
        /\ call' = ModCall("AddRequire", path, version, r.ret, mod, call.parsed)
        /\ UNCHANGED <<modFile, sumFile, cache, vendor, resp, sum>>

\* mod.RemoveRequire(path)
CallRemoveRequire(path) ==
    LET r == RemoveRequire(mod, path)
    IN  /\ mod' = r.mod
        /\ call' = ModCall("RemoveRequire", path, "", r.ret, mod, call.parsed)
        /\ UNCHANGED <<modFile, sumFile, cache, vendor, resp, sum>>

\* mod.Write(outPath); mod2, err := modfile.Parse(outPath); the caller goes on
\* with mod2 when err is nil (TestParseAndWrite, "write and re-parse").
CallWriteParse ==
    LET r == Parse(ModFileWrite(mod))
    IN  /\ mod' = IF r.ok THEN r.mod ELSE mod
        /\ call' = ModCall("WriteParse", "", "", r.ok, mod, call.parsed \/ r.ok)
        /\ UNCHANGED <<modFile, sumFile, cache, vendor, resp, sum>>

NextMod ==
    \/ \E p \in ModPaths, v \in ModVersions : CallAddRequire(p, v)
    \/ \E p \in ModPaths : CallRemoveRequire(p)
    \/ CallWriteParse

SpecMod == InitMod /\ [][NextMod]_vars

\* Every path, version and local path of m, and its root path, is a token.
TokensOnly(m) ==
    /\ m.HolonPath \in Tokens
    /\ \A i \in 1..Len(m.Require) :
          m.Require[i].Path \in Tokens /\ m.Require[i].Version \in Tokens
    /\ \A i \in 1..Len(m.Replace) :
          m.Replace[i].Old \in Tokens /\ m.Replace[i].LocalPath \in Tokens

UniquePaths(m) ==
    \A i, j \in 1..Len(m.Require) :
        m.Require[i].Path = m.Require[j].Path => i = j

\* C1 (as claimed): for every manifest m whose root path, paths, versions and
\* local paths are non-empty white-space free tokens (keywords included),
\* Parse(Write(m)) succeeds and yields m: same root path, same requires in the
\* same order, same replaces in the same order.
C1_RoundTrip ==
    (call.op = "WriteParse" /\ TokensOnly(call.before))
        => (call.ret /\ mod = call.before)

\* C2: AddRequire(path, version) on a list holding the path changes only the
\* version of that entry (same position, same length, other entries equal) and
\* returns false; on a list without the path it appends the entry at the end,
\* leaves the earlier entries as they were and returns true.
C2_AddRequire ==
    call.op = "AddRequire" =>
        LET old == call.before.Require
            new == mod.Require
            had == \E i \in 1..Len(old) : old[i].Path = call.path
        IN  /\ mod.HolonPath = call.before.HolonPath
            /\ mod.Replace = call.before.Replace
            /\ had =>
                 /\ call.ret = FALSE
                 /\ Len(new) = Len(old)
                 /\ \E i \in 1..Len(old) :
                       /\ old[i].Path = call.path
                       /\ new[i] = Require(call.path, call.version)
                       /\ \A j \in 1..Len(old) : j # i => new[j] = old[j]
            /\ ~had =>
                 /\ call.ret = TRUE
                 /\ Len(new) = Len(old) + 1
                 /\ new[Len(new)] = Require(call.path, call.version)
                 /\ \A j \in 1..Len(old) : new[j] = old[j]

C2_Witness ==
    /\ call.op = "AddRequire"
    /\ call.ret = FALSE
    /\ Len(mod.Require) = 2
    /\ mod.Require[1].Path = call.path
    /\ call.before.Require[1].Version # call.version

\* C3: RemoveRequire(path) on a list holding the path removes exactly one entry
\* with that path, keeps all the others in their order and returns true; on a
\* list without the path it changes nothing and returns false.
C3_RemoveRequire ==
    call.op = "RemoveRequire" =>
        LET old == call.before.Require
            new == mod.Require
            had == \E i \in 1..Len(old) : old[i].Path = call.path
        IN  /\ mod.HolonPath = call.before.HolonPath
            /\ mod.Replace = call.before.Replace
            /\ had =>
                 /\ call.ret = TRUE
                 /\ \E i \in 1..Len(old) :
                       /\ old[i].Path = call.path
                       /\ new = SubSeq(old, 1, i - 1) \o SubSeq(old, i + 1, Len(old))
            /\ ~had => (call.ret = FALSE /\ mod = call.before)

C3_Witness ==
    /\ call.op = "RemoveRequire"
    /\ call.ret = TRUE
    /\ Len(call.before.Require) = 2
    /\ Len(mod.Require) = 1
    /\ call.before.Require[1].Path = call.path

\* C4 (as claimed): in a manifest obtained by Parse of an accepted text, and in
\* every manifest reached from it by AddRequire / RemoveRequire, no two
\* requirements share a path; so once RemoveRequire(p) has returned true no
\* requirement with path p is left.
C4_UniquePaths ==
    call.parsed =>
        /\ UniquePaths(mod)
        /\ (call.op = "RemoveRequire" /\ call.ret) => FirstRequire(mod, call.path) = 0

(***************************************************************************)
(* Callers of pkg/modfile: a SumFile value and the calls made on it.       *)
(***************************************************************************)

SumPaths    == {"a", "b"}
SumVersions == {"v1", "v1/HOLON.md"}
SumHashes   == {"h1:x", "h1:y"}

SumCall(op, path, version, hash, ret, before, file, last) ==
    [op |-> op, path |-> path, version |-> version, hash |-> hash, ret |-> ret,
     before |-> before, file |-> file, last |-> last]

\* call.last[p, v] is the hash of the last Set(p, v, _), "" when there was none.
InitSum ==
    /\ IdleServer
    /\ mod = ModFile("")
    /\ sum = SumFile
    /\ call = SumCall("new", "", "", "", TRUE, SumFile, NoFile,
                      [k \in SumPaths \X SumVersions |-> ""])

\* sum.Set(path, version, hash)
CallSet(path, version, hash) ==
    LET s == Set(sum, path, version, hash)
    IN  /\ Len(s.Entries) <= MaxSum
        /\ sum' = s
        /\ call' = SumCall("Set", path, version, hash, TRUE, sum, NoFile,
                           [call.last EXCEPT ![<<path, version>>] = hash])
        /\ UNCHANGED <<modFile, sumFile, cache, vendor, resp, mod>>

\* sum.Write(sumPath); sum2, err := modfile.ParseSum(sumPath); the caller goes
\* on with sum2 when err is nil (TestSumRoundTrip).
CallSumWriteParse ==
    LET w == SumFileWrite(sum)
        r == ParseSum(w.file)
    IN  /\ sum' = IF r.ok THEN r.sum ELSE w.sum
        /\ call' = SumCall("WriteParse", "", "", "", r.ok, sum, w.file, call.last)
        /\ UNCHANGED <<modFile, sumFile, cache, vendor, resp, mod>>

NextSum ==
    \/ \E p \in SumPaths, v \in SumVersions, h \in SumHashes : CallSet(p, v, h)
    \/ CallSumWriteParse

SpecSum == InitSum /\ [][NextSum]_vars

Triples(s) == {s.Entries[i] : i \in 1..Len(s.Entries)}

\* (path, versionKey) of line x strictly before that of line y.
KeyBefore(x, y) ==
    \/ Rank(x[1]) < Rank(y[1])
    \/ x[1] = y[1] /\ Rank(x[2]) < Rank(y[2])

\* C5: for a SumFile built by Set calls in any order, the written file lists the
\* entries in strictly ascending (path, versionKey) order, ParseSum of it
\* succeeds with the same set of (path, versionKey, hash) triples, and Lookup
\* on the result returns for each key the hash last Set for it.
C5_SumRoundTrip ==
    call.op = "WriteParse" =>
        /\ \A i \in 1..(Len(call.file.lines) - 1) :
              KeyBefore(call.file.lines[i], call.file.lines[i + 1])
        /\ Len(call.file.lines) = Len(call.before.Entries)
        /\ call.ret
        /\ Triples(sum) = Triples(call.before)
        /\ Len(sum.Entries) = Len(call.before.Entries)
        /\ \A k \in SumPaths \X SumVersions : Lookup(sum, k[1], k[2]) = call.last[k]

\* A file of three entries that were Set in descending order, one of them twice.
C5_Witness ==
    /\ call.op = "WriteParse"
    /\ Len(call.file.lines) = 3
    /\ Len(call.before.Entries) = 3
    /\ KeyBefore(<<call.before.Entries[2].Path, call.before.Entries[2].Version>>,
                 <<call.before.Entries[1].Path, call.before.Entries[1].Version>>)
    /\ KeyBefore(<<call.before.Entries[3].Path, call.before.Entries[3].Version>>,
                 <<call.before.Entries[2].Path, call.before.Entries[2].Version>>)
    /\ Lookup(sum, "a", "v1") = "h1:y"

UniqueKeys(s) ==
    \A i, j \in 1..Len(s.Entries) :
        (s.Entries[i].Path = s.Entries[j].Path
            /\ s.Entries[i].Version = s.Entries[j].Version) => i = j

\* C6: after any sequence of Set calls from an empty SumFile no two entries
\* share (path, versionKey); Set on a key already present replaces its hash and
\* leaves the number of entries and every other entry as they were.
C6_UniqueKeys ==
    /\ UniqueKeys(sum)
    /\ (call.op = "Set" /\ FirstEntry(call.before, call.path, call.version) # 0) =>
          /\ Len(sum.Entries) = Len(call.before.Entries)
          /\ \A i \in 1..Len(sum.Entries) :
                sum.Entries[i] =
                    IF call.before.Entries[i].Path = call.path
                       /\ call.before.Entries[i].Version = call.version
                    THEN SumEntry(call.path, call.version, call.hash)
                    ELSE call.before.Entries[i]

C6_Witness ==
    /\ call.op = "Set"
    /\ Len(call.before.Entries) = 2
    /\ FirstEntry(call.before, call.path, call.version) = 1
    /\ Lookup(call.before, call.path, call.version) # call.hash
    /\ Lookup(sum, call.path, call.version) = call.hash

(***************************************************************************)
(* internal/server : the cache and the hashes                              *)
(***************************************************************************)

Paths     == {"a", "o/a"}
Versions  == {"v1", "v2"}
RootPaths == {"", "r", "s"}

\* The versions Update works on: tags of the form v<major>.<minor>.<patch>
\* and a branch name.  The cache versions also hold a tag spelled without
\* the leading "v" and the empty version of an AddRequest without one.
TagVersions   == {"v1.2.0", "v1.3.0"}
CacheVersions == Versions \cup TagVersions \cup {"main", "v1.10.0", "1.3.0", ""}

\* The elements a dependency path is made of, and filepath.Split of the path:
\* the directory ("." when there is none) and the last element.
PathElems == {"a", "o"}

filepathSplit(p) ==
    IF p \in PathElems THEN <<".", p>>
    ELSE CHOOSE e \in PathElems \X PathElems : e[1] \o "/" \o e[2] = p

filepathDir(p) == filepathSplit(p)[1]

filepathBase(p) == filepathSplit(p)[2]

\* The bytes of a text file of these lines.
RECURSIVE Bytes(_)
Bytes(lines) ==
    IF lines = <<>> THEN ""
    ELSE JoinSp(Head(lines)) \o "\n" \o Bytes(Tail(lines))

\* A regular file of a directory tree: its path relative to the root, its lines.
Blob(rel, data) == [rel |-> rel, data |-> data]

\* A path of the file system that holds no directory, and a directory tree.
NoDir == [exists |-> FALSE, files |-> {}]

Dir(files) == [exists |-> TRUE, files |-> files]

\* cachePathFor, relative to CacheDir().
cachePathFor(depPath, version) == depPath \o "@" \o version

CacheDirs == {cachePathFor(p, v) : p \in Paths, v \in CacheVersions}

\* The directories between CacheDir() and the cache directories.
CacheParents == {filepathDir(p) : p \in Paths} \ {"."}

\* The manifests the remote repositories carry.
SubMod(depPath, version) ==
    IF depPath = "a"
    THEN ModFileLines([ModFile("a") EXCEPT
             !.Require = <<Require("o/a", "v1.2.0"), Require("c", "v1.2.0")>>])
    ELSE IF version = "v1.3.0"
    THEN <<<<"holon", depPath>>, <<"require", "(">>, <<"c">>, <<")">>>>
    ELSE ModFileLines([ModFile(depPath) EXCEPT !.Require = <<Require("c", "v1.3.0")>>])

\* What "git clone --depth=1 --branch version https://depPath(.git)" checks out
\* when it succeeds: holon a carries a HOLON.md, and a holon.mod but at v1.3.0;
\* holon o/a carries no HOLON.md, a holon.mod at its tags only, a malformed
\* one at v1.3.0.
Remote(depPath, version) ==
    {Blob(".git/HEAD", <<<<version>>>>), Blob("src", <<<<depPath \o "-" \o version>>>>)}
        \cup (IF depPath = "a" THEN {Blob("HOLON.md", <<<<"id-" \o depPath>>>>)} ELSE {})
        \cup (IF (depPath = "a" /\ version # "v1.3.0") \/ (depPath # "a" /\ version \in TagVersions)
              THEN {Blob("holon.mod", SubMod(depPath, version))} ELSE {})

\* os.RemoveAll(filepath.Join(cachePath, ".git"))
RemoveGit(files) == {f \in files : f.rel # ".git/HEAD"}

\* os.MkdirAll(filepath.Dir(cachePathFor(depPath, version))): a version holds
\* no "/", so the directory is that of depPath below CacheDir().
MkdirAllParent(c, depPath) ==
    LET d == filepathDir(depPath)
    IN  IF d = "." \/ c[d].exists THEN c ELSE [c EXCEPT ![d] = Dir({})]

\* fetchToCache without the "already cached?" test.
fetchToCacheAlways(c, depPath, version, gitOk) ==
    LET cachePath == cachePathFor(depPath, version)
        made == MkdirAllParent(c, depPath)
    IN  IF gitOk
        THEN [cache |-> [made EXCEPT ![cachePath] = Dir(RemoveGit(Remote(depPath, version)))],
              cachePath |-> cachePath, git |-> "ok"]
        ELSE [cache |-> made, cachePath |-> "", git |-> "fail"]

\* fetchToCache: [cache, cachePath, git]; git tells whether git clone ran and
\* how it ended.  gitOk is the outcome of the clone, should it run; a clone
\* that fails leaves no directory at cachePath.
fetchToCache(c, depPath, version, gitOk) ==
    LET cachePath == cachePathFor(depPath, version)
        made == MkdirAllParent(c, depPath)
    IN  IF c[cachePath].exists
        THEN [cache |-> c, cachePath |-> cachePath, git |-> "none"]
        ELSE IF gitOk
        THEN [cache |-> [made EXCEPT ![cachePath] = Dir(RemoveGit(Remote(depPath, version)))],
              cachePath |-> cachePath, git |-> "ok"]
        ELSE [cache |-> made, cachePath |-> "", git |-> "fail"]

\* The files of a tree in the order filepath.WalkDir visits them.
RECURSIVE WalkDir(_)
WalkDir(files) ==
    IF files = {} THEN <<>>
    ELSE LET f == CHOOSE x \in files : \A y \in files : ~StrLess(y.rel, x.rel)
         IN  <<f>> \o WalkDir(files \ {f})

\* The bytes hashDir writes to the hash: relative path, then content, per file.
RECURSIVE HashInput(_)
HashInput(walk) ==
    IF walk = <<>> THEN ""
    ELSE Head(walk).rel \o Bytes(Head(walk).data) \o HashInput(Tail(walk))

\* hex.EncodeToString of the SHA-256 of these bytes (taken as collision free).
Sha256Hex(bytes) == "sha256<" \o bytes \o ">"

\* hashDir: "" when the walk fails.
hashDir(dir) ==
    IF ~dir.exists THEN "" ELSE Sha256Hex(HashInput(WalkDir(dir.files)))

\* os.ReadFile(filepath.Join(dir, name)) as a text file.
ReadFile(dir, name) ==
    LET hits == {f \in dir.files : f.rel = name}
    IN  IF ~dir.exists \/ hits = {} THEN NoFile
        ELSE File((CHOOSE f \in hits : TRUE).data)

\* hashFile(filepath.Join(dir, name)): "" when the file cannot be read.
hashFile(dir, name) ==
    LET f == ReadFile(dir, name)
    IN  IF ~f.exists THEN "" ELSE Sha256Hex(Bytes(f.lines))

(***************************************************************************)
(* internal/server : the operations.  fs = [modFile, sumFile, cache] is    *)
(* the project directory and the cache; each operation returns the new fs *)
(* and its response.                                                       *)
(***************************************************************************)

\* A request and its response.  The request: op and its fields holonPath, path,
\* version.  The response: the status code, and the fields of the pb response
\* message of op; the other fields keep their zero values.  git and cmds tell
\* which external commands the request ran.
Resp(op, holonPath, path, version, code, cachePath, git) ==
    [op |-> op, holonPath |-> holonPath, path |-> path, version |-> version,
     code |-> code, cachePath |-> cachePath, git |-> git,
     cmds |-> <<>>, fetched |-> <<>>, ok |-> FALSE, errors |-> <<>>,
     root |-> "", edges |-> <<>>, updated |-> <<>>, vendored |-> <<>>]

\* One external command run for a request: the "git clone" of fetchToCache or
\* the "git ls-remote" of latestCompatibleTag, the dependency it was run for,
\* whether it succeeded and the lines it wrote to cmd.Output().  The retry
\* without the .git suffix counts with its first attempt.
Cmd(cmd, path, version, ok) ==
    [cmd |-> cmd, path |-> path, version |-> version, ok |-> ok, out |-> <<>>]

LsRemoteCmd(path, version, out) ==
    [cmd |-> "ls-remote", path |-> path, version |-> version, ok |-> ~out.err,
     out |-> out.lines]

\* The commands a fetchToCache call with result f ran.
FetchCmds(f, path, version) ==
    IF f.git = "none" THEN <<>> ELSE <<Cmd("clone", path, version, f.git = "ok")>>

\* &pb.Dependency{Path, Version, CachePath}
Dependency(path, version, cachePath) ==
    [Path |-> path, Version |-> version, CachePath |-> cachePath]

\* Init without the os.Stat test.
ServerInitOverwrites(fs, holonPath) ==
    IF holonPath = ""
    THEN [fs |-> fs, code |-> "InvalidArgument"]
    ELSE [fs |-> [fs EXCEPT !.modFile = ModFileWrite(ModFile(holonPath))], code |-> "OK"]

\* (*Server).Init
ServerInit(fs, holonPath) ==
    IF holonPath = ""
    THEN [fs |-> fs, code |-> "InvalidArgument"]
    ELSE IF fs.modFile.exists
    THEN [fs |-> fs, code |-> "AlreadyExists"]
    ELSE [fs |-> [fs EXCEPT !.modFile = ModFileWrite(ModFile(holonPath))], code |-> "OK"]

\* The holon.sum update without the cachePath != "" test.
AddSumAlways(sumf, dir, cachePath, path, version) ==
    LET p  == ParseSum(sumf)
        h  == hashDir(dir)
        s1 == IF h # "" THEN Set(p.sum, path, version, "h1:" \o h) ELSE p.sum
        hm == hashFile(dir, "HOLON.md")
        s2 == IF hm # "" THEN Set(s1, path, version \o "/HOLON.md", "h1:" \o hm) ELSE s1
    IN  [sumFile |-> SumFileWrite(s2).file, panic |-> FALSE]

\* The holon.sum update that records the HOLON.md hash under the bare version.
AddSumBareKey(sumf, dir, cachePath, path, version) ==
    IF cachePath = "" THEN [sumFile |-> sumf, panic |-> FALSE]
    ELSE LET p  == ParseSum(sumf)
             h  == hashDir(dir)
             s1 == IF h # "" THEN Set(p.sum, path, version, "h1:" \o h) ELSE p.sum
             hm == hashFile(dir, "HOLON.md")
             s2 == IF hm # "" THEN Set(s1, path, version, "h1:" \o hm) ELSE s1
         IN  [sumFile |-> SumFileWrite(s2).file, panic |-> FALSE]

\* "Update holon.sum" of Add: [sumFile, panic].  dir is the tree at cachePath.
\* ParseSum's error is dropped, so a malformed holon.sum leaves sum nil and
\* sum.Set dereferences it.
AddSum(sumf, dir, cachePath, path, version) ==
    IF cachePath = "" THEN [sumFile |-> sumf, panic |-> FALSE]
    ELSE LET p  == ParseSum(sumf)
             h  == hashDir(dir)
             s1 == IF h # "" THEN Set(p.sum, path, version, "h1:" \o h) ELSE p.sum
             hm == hashFile(dir, "HOLON.md")
             s2 == IF hm # "" THEN Set(s1, path, version \o "/HOLON.md", "h1:" \o hm) ELSE s1
         IN  IF ~p.ok
             THEN [sumFile |-> sumf, panic |-> TRUE]
             ELSE [sumFile |-> SumFileWrite(s2).file, panic |-> FALSE]

\* (*Server).Add: [fs, code, cachePath, git]
ServerAdd(fs, path, version, gitOk) ==
    LET p == Parse(fs.modFile)
        m == AddRequire(p.mod, path, version).mod
        f == fetchToCache(fs.cache, path, version, gitOk)
        dir == IF f.cachePath = "" THEN NoDir ELSE f.cache[f.cachePath]
        u == AddSum(fs.sumFile, dir, f.cachePath, path, version)
    IN  IF ~p.ok
        THEN [fs |-> fs, code |-> "NotFound", cachePath |-> "", git |-> "none"]
        ELSE [fs |-> [fs EXCEPT !.modFile = ModFileWrite(m), !.sumFile = u.sumFile,
                                !.cache = f.cache],
              code |-> IF u.panic THEN "panic" ELSE "OK",
              cachePath |-> f.cachePath, git |-> f.git]

\* A Pull loop that lists in fetched only what it cloned.
RECURSIVE PullLoopListsCloned(_, _, _, _)
PullLoopListsCloned(m, i, gitOk, st) ==
    IF i > Len(m.Require) \/ st.code # "OK" THEN st
    ELSE LET req == m.Require[i]
             f   == fetchToCache(st.cache, req.Path, req.Version, gitOk[req.Path])
             dir == IF f.cachePath = "" THEN NoDir ELSE f.cache[f.cachePath]
             h   == hashDir(dir)
             s1  == IF h # "" THEN Set(st.sum, req.Path, req.Version, "h1:" \o h) ELSE st.sum
             hm  == hashFile(dir, "HOLON.md")
             s2  == IF hm # ""
                    THEN Set(s1, req.Path, req.Version \o "/HOLON.md", "h1:" \o hm) ELSE s1
             ran == st.cmds \o FetchCmds(f, req.Path, req.Version)
         IN  IF ResolvedPath(m, req.Path) # ""
             THEN PullLoopListsCloned(m, i + 1, gitOk, st)
             ELSE IF f.git = "fail"
             THEN [st EXCEPT !.cache = f.cache, !.cmds = ran, !.code = "Internal"]
             ELSE IF st.nil /\ (h # "" \/ hm # "")
             THEN [st EXCEPT !.cache = f.cache, !.cmds = ran, !.code = "panic"]
             ELSE PullLoopListsCloned(m, i + 1, gitOk,
                      [st EXCEPT !.cache = f.cache, !.sum = s2, !.cmds = ran,
                                 !.fetched = IF f.git = "none" THEN @
                                             ELSE Append(@, Dependency(req.Path, req.Version,
                                                                       f.cachePath))])

\* A Pull loop that goes on to the next requirement when a clone fails.
RECURSIVE PullLoopContinues(_, _, _, _)
PullLoopContinues(m, i, gitOk, st) ==
    IF i > Len(m.Require) \/ st.code # "OK" THEN st
    ELSE LET req == m.Require[i]
             f   == fetchToCache(st.cache, req.Path, req.Version, gitOk[req.Path])
             dir == IF f.cachePath = "" THEN NoDir ELSE f.cache[f.cachePath]
             h   == hashDir(dir)
             s1  == IF h # "" THEN Set(st.sum, req.Path, req.Version, "h1:" \o h) ELSE st.sum
             hm  == hashFile(dir, "HOLON.md")
             s2  == IF hm # ""
                    THEN Set(s1, req.Path, req.Version \o "/HOLON.md", "h1:" \o hm) ELSE s1
             ran == st.cmds \o FetchCmds(f, req.Path, req.Version)
         IN  IF ResolvedPath(m, req.Path) # ""
             THEN PullLoopContinues(m, i + 1, gitOk, st)
             ELSE IF f.git = "fail"
             THEN PullLoopContinues(m, i + 1, gitOk,
                      [st EXCEPT !.cache = f.cache, !.cmds = ran])
             ELSE IF st.nil /\ (h # "" \/ hm # "")
             THEN [st EXCEPT !.cache = f.cache, !.cmds = ran, !.code = "panic"]
             ELSE PullLoopContinues(m, i + 1, gitOk,
                      [st EXCEPT !.cache = f.cache, !.sum = s2, !.cmds = ran,
                                 !.fetched = Append(@, Dependency(req.Path, req.Version,
                                                                  f.cachePath))])

\* The loop of Pull from requirement i on.  st: the cache, the SumFile in
\* memory (nil when ParseSum failed), the fetched list, the commands run, and
\* the code the loop ended with.  gitOk[path] is the outcome of the clone of
\* path, should it run.
RECURSIVE PullLoop(_, _, _, _)
PullLoop(m, i, gitOk, st) ==
    IF i > Len(m.Require) \/ st.code # "OK" THEN st
    ELSE LET req == m.Require[i]
             f   == fetchToCache(st.cache, req.Path, req.Version, gitOk[req.Path])
             dir == IF f.cachePath = "" THEN NoDir ELSE f.cache[f.cachePath]
             h   == hashDir(dir)
             s1  == IF h # "" THEN Set(st.sum, req.Path, req.Version, "h1:" \o h) ELSE st.sum
             hm  == hashFile(dir, "HOLON.md")
             s2  == IF hm # ""
                    THEN Set(s1, req.Path, req.Version \o "/HOLON.md", "h1:" \o hm) ELSE s1
             ran == st.cmds \o FetchCmds(f, req.Path, req.Version)
         IN  IF ResolvedPath(m, req.Path) # ""
             THEN PullLoop(m, i + 1, gitOk, st)
             ELSE IF f.git = "fail"
             THEN [st EXCEPT !.cache = f.cache, !.cmds = ran, !.code = "Internal"]
             ELSE IF st.nil /\ (h # "" \/ hm # "")
             THEN [st EXCEPT !.cache = f.cache, !.cmds = ran, !.code = "panic"]
             ELSE PullLoop(m, i + 1, gitOk,
                      [st EXCEPT !.cache = f.cache, !.sum = s2, !.cmds = ran,
                                 !.fetched = Append(@, Dependency(req.Path, req.Version,
                                                                  f.cachePath))])

\* Pull that writes the hashes it has computed to holon.sum when a clone fails.
ServerPullSaves(fs, gitOk) ==
    LET p   == Parse(fs.modFile)
        ps  == ParseSum(fs.sumFile)
        st  == PullLoop(p.mod, 1, gitOk, [cache |-> fs.cache, sum |-> ps.sum, nil |-> ~ps.ok,
                                          fetched |-> <<>>, cmds |-> <<>>, code |-> "OK"])
    IN  IF ~p.ok
        THEN [fs |-> fs, code |-> "NotFound", fetched |-> <<>>, cmds |-> <<>>]
        ELSE IF st.nil
        THEN [fs |-> [fs EXCEPT !.cache = st.cache, !.sumFile = File(<<>>)],
              code |-> "panic", fetched |-> <<>>, cmds |-> st.cmds]
        ELSE [fs |-> [fs EXCEPT !.cache = st.cache, !.sumFile = SumFileWrite(st.sum).file],
              code |-> st.code,
              fetched |-> IF st.code = "OK" THEN st.fetched ELSE <<>>, cmds |-> st.cmds]

\* (*Server).Pull: [fs, code, fetched, cmds].  With a nil SumFile the first
\* sum.Set panics, and so does sum.Write, after os.Create emptied holon.sum.
ServerPull(fs, gitOk) ==
    LET p   == Parse(fs.modFile)
        ps  == ParseSum(fs.sumFile)
        st  == PullLoop(p.mod, 1, gitOk, [cache |-> fs.cache, sum |-> ps.sum, nil |-> ~ps.ok,
                                          fetched |-> <<>>, cmds |-> <<>>, code |-> "OK"])
    IN  IF ~p.ok
        THEN [fs |-> fs, code |-> "NotFound", fetched |-> <<>>, cmds |-> <<>>]
        ELSE IF st.code # "OK"
        THEN [fs |-> [fs EXCEPT !.cache = st.cache],
              code |-> st.code, fetched |-> <<>>, cmds |-> st.cmds]
        ELSE IF st.nil
        THEN [fs |-> [fs EXCEPT !.cache = st.cache, !.sumFile = File(<<>>)],
              code |-> "panic", fetched |-> <<>>, cmds |-> st.cmds]
        ELSE [fs |-> [fs EXCEPT !.cache = st.cache, !.sumFile = SumFileWrite(st.sum).file],
              code |-> "OK", fetched |-> st.fetched, cmds |-> st.cmds]

\* CleanCache that fails when there is no cache directory to remove.
ServerCleanCacheOnce(fs) ==
    IF \A d \in DOMAIN fs.cache : ~fs.cache[d].exists
    THEN [fs |-> fs, code |-> "Internal", cachePath |-> ""]
    ELSE [fs |-> [fs EXCEPT !.cache = [d \in DOMAIN fs.cache |-> NoDir]],
          code |-> "OK", cachePath |-> "~/.holon/cache"]

\* (*Server).CleanCache: [fs, code, cachePath]
ServerCleanCache(fs) ==
    [fs |-> [fs EXCEPT !.cache = [d \in DOMAIN fs.cache |-> NoDir]],
     code |-> "OK", cachePath |-> "~/.holon/cache"]

\* The characters of the versions and tags of the model.
Spellings ==
    { <<"v", "1">>, <<"v", "2">>, <<"m", "a", "i", "n">>,
      <<"v", "1", ".", "2", ".", "0">>, <<"v", "1", ".", "3", ".", "0">>,
      <<"v", "1", ".", "1", "0", ".", "0">>, <<"v", "2", ".", "0", ".", "0">>,
      <<"1", ".", "3", ".", "0">>, <<"v", "1", ".", "3">> }

RECURSIVE Concat(_)
Concat(cs) == IF cs = <<>> THEN "" ELSE Head(cs) \o Concat(Tail(cs))

Chars(v) == CHOOSE cs \in Spellings : Concat(cs) = v

DigitChars == <<"0", "1", "2", "3", "4", "5", "6", "7", "8", "9">>

IsDigit(c) == \E i \in 1..10 : DigitChars[i] = c

DigitVal(c) == (CHOOSE i \in 1..10 : DigitChars[i] = c) - 1

\* strings.TrimPrefix(v, "v")
TrimPrefixV(cs) == IF cs # <<>> /\ Head(cs) = "v" THEN Tail(cs) ELSE cs

\* strings.SplitN(v, ".", n)
RECURSIVE SplitN(_, _)
SplitN(cs, n) ==
    LET dots == {i \in 1..Len(cs) : cs[i] = "."}
        k    == CHOOSE i \in dots : \A j \in dots : i <= j
    IN  IF n = 1 \/ dots = {} THEN <<cs>>
        ELSE <<SubSeq(cs, 1, k - 1)>> \o SplitN(SubSeq(cs, k + 1, Len(cs)), n - 1)

\* The value of the decimal digits ds read after the value acc.
RECURSIVE DecimalValue(_, _)
DecimalValue(ds, acc) ==
    IF ds = <<>> THEN acc ELSE DecimalValue(Tail(ds), 10 * acc + DigitVal(Head(ds)))

\* fmt.Sscan(part, &n): [err, n].  It reads the digits the part starts with
\* and leaves the rest; no digit is an error and n stays 0.  The parts of the
\* model start with no sign, blank, or 0 followed by a digit or base letter.
Sscan(part) ==
    LET stops == {i \in 1..Len(part) : ~IsDigit(part[i])}
        k     == IF stops = {} THEN Len(part)
                 ELSE (CHOOSE i \in stops : \A j \in stops : i <= j) - 1
    IN  IF k = 0 THEN [err |-> TRUE, n |-> 0]
        ELSE [err |-> FALSE, n |-> DecimalValue(SubSeq(part, 1, k), 0)]

\* parseSemver: [major, minor, patch, ok]
parseSemver(v) ==
    LET parts == SplitN(TrimPrefixV(Chars(v)), 3)
    IN  IF Len(parts) # 3
        THEN [major |-> 0, minor |-> 0, patch |-> 0, ok |-> FALSE]
        ELSE [major |-> Sscan(parts[1]).n, minor |-> Sscan(parts[2]).n,
              patch |-> Sscan(parts[3]).n,
              ok |-> ~Sscan(parts[1]).err /\ ~Sscan(parts[2]).err /\ ~Sscan(parts[3]).err]

\* compareSemver: negative, 0 or positive.
compareSemver(a, b) ==
    LET x == parseSemver(a)
        y == parseSemver(b)
    IN  IF x.major # y.major THEN x.major - y.major
        ELSE IF x.minor # y.minor THEN x.minor - y.minor
        ELSE x.patch - y.patch

\* tag inserted into the sorted sequence ts, after the tags not greater than it.
RECURSIVE InsertTag(_, _)
InsertTag(ts, tag) ==
    IF ts = <<>> THEN <<tag>>
    ELSE IF compareSemver(tag, Head(ts)) < 0 THEN <<tag>> \o ts
    ELSE <<Head(ts)>> \o InsertTag(Tail(ts), tag)

\* sort.Slice(candidates, less): the insertion sort it runs on short slices.
RECURSIVE SortTags(_)
SortTags(ts) ==
    IF ts = <<>> THEN <<>>
    ELSE InsertTag(SortTags(SubSeq(ts, 1, Len(ts) - 1)), ts[Len(ts)])

\* The output of "git ls-remote --tags --refs": one line "<sha> refs/tags/<tag>"
\* per tag and the empty string after the last "\n"; err when both attempts fail.
LsRemote(tags) ==
    [err |-> FALSE,
     lines |-> [i \in 1..Len(tags) |-> <<"sha", "refs/tags/" \o tags[i]>>] \o << <<>> >>]

LsRemoteFails == [err |-> TRUE, lines |-> <<>>]

\* strings.TrimPrefix(ref, "refs/tags/")
TrimPrefixRefsTags(ref) ==
    LET tags == {Concat(cs) : cs \in Spellings}
    IN  IF \E t \in tags : "refs/tags/" \o t = ref
        THEN CHOOSE t \in tags : "refs/tags/" \o t = ref
        ELSE ref

\* The candidates of latestCompatibleTag: the tags of the lines, in their
\* order, that parse and have this major.
RECURSIVE Candidates(_, _)
Candidates(lines, currentMajor) ==
    IF lines = <<>> THEN <<>>
    ELSE LET parts == Fields(Head(lines))
             tag   == TrimPrefixRefsTags(parts[2])
             rest  == Candidates(Tail(lines), currentMajor)
         IN  IF Len(parts) < 2 THEN rest
             ELSE IF parseSemver(tag).ok /\ parseSemver(tag).major = currentMajor
             THEN <<tag>> \o rest
             ELSE rest

\* latestCompatibleTag that takes the tags of every major.
latestTag(out, currentVersion) ==
    LET cur        == parseSemver(currentVersion)
        all        == Candidates(out.lines, 1) \o Candidates(out.lines, 2)
        candidates == SortTags(all)
    IN  IF out.err THEN [err |-> TRUE, latest |-> ""]
        ELSE IF ~cur.ok THEN [err |-> FALSE, latest |-> currentVersion]
        ELSE IF Len(candidates) = 0 THEN [err |-> FALSE, latest |-> currentVersion]
        ELSE [err |-> FALSE, latest |-> candidates[Len(candidates)]]

\* latestCompatibleTag: [err, latest].  out is what git ls-remote answers.
latestCompatibleTag(out, currentVersion) ==
    LET cur        == parseSemver(currentVersion)
        candidates == SortTags(Candidates(out.lines, cur.major))
    IN  IF out.err THEN [err |-> TRUE, latest |-> ""]
        ELSE IF ~cur.ok THEN [err |-> FALSE, latest |-> currentVersion]
        ELSE IF Len(candidates) = 0 THEN [err |-> FALSE, latest |-> currentVersion]
        ELSE [err |-> FALSE, latest |-> candidates[Len(candidates)]]

\* &pb.UpdatedDependency{Path, OldVersion, NewVersion}
UpdatedDependency(path, old, new) ==
    [Path |-> path, OldVersion |-> old, NewVersion |-> new]

\* An Update loop that leaves the cache entry of the old version in place.
RECURSIVE UpdateLoopKeeps(_, _, _)
UpdateLoopKeeps(i, ls, st) ==
    IF i > Len(st.mod.Require) THEN st
    ELSE LET dep == st.mod.Require[i]
             r   == latestCompatibleTag(ls[dep.Path], dep.Version)
             ran == Append(st.cmds, LsRemoteCmd(dep.Path, dep.Version, ls[dep.Path]))
         IN  IF ResolvedPath(st.mod, dep.Path) # ""
             THEN UpdateLoopKeeps(i + 1, ls, st)
             ELSE IF r.err \/ r.latest = dep.Version
             THEN UpdateLoopKeeps(i + 1, ls, [st EXCEPT !.cmds = ran])
             ELSE UpdateLoopKeeps(i + 1, ls,
                      [mod |-> [st.mod EXCEPT !.Require[i].Version = r.latest],
                       cache |-> st.cache,
                       updated |-> Append(st.updated,
                                          UpdatedDependency(dep.Path, dep.Version, r.latest)),
                       cmds |-> ran])

\* The loop of Update from requirement i on.  st: the ModFile in memory, the
\* cache, the updated list and the commands run.  ls[path] is what git
\* ls-remote answers for path.
RECURSIVE UpdateLoop(_, _, _)
UpdateLoop(i, ls, st) ==
    IF i > Len(st.mod.Require) THEN st
    ELSE LET dep == st.mod.Require[i]
             r   == latestCompatibleTag(ls[dep.Path], dep.Version)
             ran == Append(st.cmds, LsRemoteCmd(dep.Path, dep.Version, ls[dep.Path]))
             oldCache == cachePathFor(dep.Path, dep.Version)
         IN  IF ResolvedPath(st.mod, dep.Path) # ""
             THEN UpdateLoop(i + 1, ls, st)
             ELSE IF r.err \/ r.latest = dep.Version
             THEN UpdateLoop(i + 1, ls, [st EXCEPT !.cmds = ran])
             ELSE UpdateLoop(i + 1, ls,
                      [mod |-> [st.mod EXCEPT !.Require[i].Version = r.latest],
                       cache |-> [st.cache EXCEPT ![oldCache] = NoDir],
                       updated |-> Append(st.updated,
                                          UpdatedDependency(dep.Path, dep.Version, r.latest)),
                       cmds |-> ran])

\* Update that clones the new version of what it updated.
ServerUpdateFetches(fs, ls) ==
    LET p  == Parse(fs.modFile)
        st == UpdateLoop(1, ls, [mod |-> p.mod, cache |-> fs.cache,
                                 updated |-> <<>>, cmds |-> <<>>])
        new == {cachePathFor(st.updated[i].Path, st.updated[i].NewVersion) :
                   i \in 1..Len(st.updated)}
    IN  IF ~p.ok
        THEN [fs |-> fs, code |-> "NotFound", updated |-> <<>>, cmds |-> <<>>]
        ELSE [fs |-> [fs EXCEPT !.cache = [d \in DOMAIN st.cache |->
                                             IF d \in new THEN Dir({}) ELSE st.cache[d]],
                                !.modFile = IF Len(st.updated) > 0
                                            THEN ModFileWrite(st.mod) ELSE @],
              code |-> "OK", updated |-> st.updated, cmds |-> st.cmds]

\* Update that gives up at the first requirement whose tags cannot be listed.
ServerUpdateAborts(fs, ls) ==
    LET p  == Parse(fs.modFile)
        st == UpdateLoop(1, ls, [mod |-> p.mod, cache |-> fs.cache,
                                 updated |-> <<>>, cmds |-> <<>>])
        failed == \E i \in 1..Len(st.cmds) : ~st.cmds[i].ok
    IN  IF ~p.ok
        THEN [fs |-> fs, code |-> "NotFound", updated |-> <<>>, cmds |-> <<>>]
        ELSE IF failed
        THEN [fs |-> fs, code |-> "Internal", updated |-> <<>>, cmds |-> st.cmds]
        ELSE [fs |-> [fs EXCEPT !.cache = st.cache,
                                !.modFile = IF Len(st.updated) > 0
                                            THEN ModFileWrite(st.mod) ELSE @],
              code |-> "OK", updated |-> st.updated, cmds |-> st.cmds]

\* Update that writes holon.mod whether a version changed or not.
ServerUpdateAlwaysWrites(fs, ls) ==
    LET p  == Parse(fs.modFile)
        st == UpdateLoop(1, ls, [mod |-> p.mod, cache |-> fs.cache,
                                 updated |-> <<>>, cmds |-> <<>>])
    IN  IF ~p.ok
        THEN [fs |-> fs, code |-> "NotFound", updated |-> <<>>, cmds |-> <<>>]
        ELSE [fs |-> [fs EXCEPT !.cache = st.cache, !.modFile = ModFileWrite(st.mod)],
              code |-> "OK", updated |-> st.updated, cmds |-> st.cmds]

\* The end of Update, after the loop left st: holon.mod is written back when
\* a version changed, and the updated list is the response.
UpdateResponse(fs, st) ==
    [fs |-> [fs EXCEPT !.cache = st.cache,
                       !.modFile = IF Len(st.updated) > 0
                                   THEN ModFileWrite(st.mod) ELSE @],
     code |-> "OK", updated |-> st.updated, cmds |-> st.cmds]

\* (*Server).Update: [fs, code, updated, cmds]
ServerUpdate(fs, ls) ==
    LET p == Parse(fs.modFile)
    IN  IF ~p.ok
        THEN [fs |-> fs, code |-> "NotFound", updated |-> <<>>, cmds |-> <<>>]
        ELSE UpdateResponse(fs, UpdateLoop(1, ls, [mod |-> p.mod, cache |-> fs.cache,
                                                   updated |-> <<>>, cmds |-> <<>>]))

\* A line of VerifyResponse.Errors, by what it says:
\*   "replace"      "WARNING: active replace <path> => <localPath>"
\*   "not in cache" "<path> <version>: not in cache"
\*   "mismatch"     "<path> <version>: hash mismatch (want <want>, got <got>)"
Problem(kind, path, version, localPath, want, got) ==
    [kind |-> kind, path |-> path, version |-> version, localPath |-> localPath,
     want |-> want, got |-> got]

\* strings.HasSuffix(version, "/HOLON.md") and strings.TrimSuffix: [isHolonMD, version]
TrimSuffixHolonMD(version) ==
    IF \E b \in CacheVersions : b \o "/HOLON.md" = version
    THEN [isHolonMD |-> TRUE,
          version |-> CHOOSE b \in CacheVersions : b \o "/HOLON.md" = version]
    ELSE [isHolonMD |-> FALSE, version |-> version]

\* The directory at a path below CacheDir().
DirAt(c, cachePath) == IF cachePath \in DOMAIN c THEN c[cachePath] ELSE NoDir

\* Verify that reports the entries that are not in the cache only.
VerifyEntryPresence(c, entry) ==
    LET t   == TrimSuffixHolonMD(entry.Version)
        dir == DirAt(c, cachePathFor(entry.Path, t.version))
        currentHash == IF t.isHolonMD THEN hashFile(dir, "HOLON.md") ELSE hashDir(dir)
    IN  IF currentHash = ""
        THEN <<Problem("not in cache", entry.Path, entry.Version, "", "", "")>>
        ELSE <<>>

\* The problems Verify reports for one holon.sum entry.
VerifyEntry(c, entry) ==
    LET t   == TrimSuffixHolonMD(entry.Version)
        dir == DirAt(c, cachePathFor(entry.Path, t.version))
        currentHash == IF t.isHolonMD THEN hashFile(dir, "HOLON.md") ELSE hashDir(dir)
    IN  IF currentHash = ""
        THEN <<Problem("not in cache", entry.Path, entry.Version, "", "", "")>>
        ELSE IF "h1:" \o currentHash # entry.Hash
        THEN <<Problem("mismatch", entry.Path, entry.Version, "", entry.Hash,
                       "h1:" \o currentHash)>>
        ELSE <<>>

RECURSIVE VerifyEntries(_, _)
VerifyEntries(c, entries) ==
    IF entries = <<>> THEN <<>>
    ELSE VerifyEntry(c, Head(entries)) \o VerifyEntries(c, Tail(entries))

\* Verify whose ok does not count the replace warnings.
ServerVerifyWarningsOk(fs) ==
    LET ps == ParseSum(fs.sumFile)
        p  == Parse(fs.modFile)
        warnings == IF p.ok
                    THEN [i \in 1..Len(p.mod.Replace) |->
                             Problem("replace", p.mod.Replace[i].Old, "",
                                     p.mod.Replace[i].LocalPath, "", "")]
                    ELSE <<>>
        found == VerifyEntries(fs.cache, ps.sum.Entries)
    IN  IF ~ps.ok
        THEN [fs |-> fs, code |-> "NotFound", ok |-> FALSE, errors |-> <<>>]
        ELSE [fs |-> fs, code |-> "OK", ok |-> Len(found) = 0, errors |-> warnings \o found]

\* Verify that writes holon.sum back after reading it.
ServerVerifyRewrites(fs) ==
    LET ps == ParseSum(fs.sumFile)
        p  == Parse(fs.modFile)
        warnings == IF p.ok
                    THEN [i \in 1..Len(p.mod.Replace) |->
                             Problem("replace", p.mod.Replace[i].Old, "",
                                     p.mod.Replace[i].LocalPath, "", "")]
                    ELSE <<>>
        errors == warnings \o VerifyEntries(fs.cache, ps.sum.Entries)
    IN  IF ~ps.ok
        THEN [fs |-> fs, code |-> "NotFound", ok |-> FALSE, errors |-> <<>>]
        ELSE [fs |-> [fs EXCEPT !.sumFile = SumFileWrite(ps.sum).file],
              code |-> "OK", ok |-> Len(errors) = 0, errors |-> errors]

\* (*Server).Verify: [fs, code, ok, errors].  A holon.mod that does not parse
\* leaves mod nil and gives no warning.
ServerVerify(fs) ==
    LET ps == ParseSum(fs.sumFile)
        p  == Parse(fs.modFile)
        warnings == IF p.ok
                    THEN [i \in 1..Len(p.mod.Replace) |->
                             Problem("replace", p.mod.Replace[i].Old, "",
                                     p.mod.Replace[i].LocalPath, "", "")]
                    ELSE <<>>
        errors == warnings \o VerifyEntries(fs.cache, ps.sum.Entries)
    IN  IF ~ps.ok
        THEN [fs |-> fs, code |-> "NotFound", ok |-> FALSE, errors |-> <<>>]
        ELSE [fs |-> fs, code |-> "OK", ok |-> Len(errors) = 0, errors |-> errors]

\* &pb.Edge{From, To, Version}
Edge(from, to, version) == [From |-> from, To |-> to, Version |-> version]

\* Graph that follows the requirements of the second tier too.
RECURSIVE GraphEdgesDeep(_, _, _)
GraphEdgesDeep(c, m, i) ==
    IF i > Len(m.Require) THEN <<>>
    ELSE LET req    == m.Require[i]
             subMod == Parse(ReadFile(DirAt(c, cachePathFor(req.Path, req.Version)),
                                      "holon.mod"))
             below(sub) ==
                 LET subSub == Parse(ReadFile(DirAt(c, cachePathFor(sub.Path, sub.Version)),
                                              "holon.mod"))
                 IN  IF subSub.ok
                     THEN [k \in 1..Len(subSub.mod.Require) |->
                              [From |-> sub.Path, To |-> subSub.mod.Require[k].Path,
                               Version |-> subSub.mod.Require[k].Version]]
                     ELSE <<>>
             subs   == IF subMod.ok /\ Len(subMod.mod.Require) > 0
                       THEN <<[From |-> req.Path, To |-> subMod.mod.Require[1].Path,
                               Version |-> subMod.mod.Require[1].Version]>>
                            \o below(subMod.mod.Require[1])
                            \o [j \in 1..Len(subMod.mod.Require) - 1 |->
                                   [From |-> req.Path, To |-> subMod.mod.Require[j + 1].Path,
                                    Version |-> subMod.mod.Require[j + 1].Version]]
                       ELSE <<>>
         IN  <<[From |-> m.HolonPath, To |-> req.Path, Version |-> req.Version]>>
                 \o subs \o GraphEdgesDeep(c, m, i + 1)

\* The edges Graph appends for the requirements from i on.
RECURSIVE GraphEdges(_, _, _)
GraphEdges(c, m, i) ==
    IF i > Len(m.Require) THEN <<>>
    ELSE LET req    == m.Require[i]
             subMod == Parse(ReadFile(DirAt(c, cachePathFor(req.Path, req.Version)),
                                      "holon.mod"))
             subs   == IF subMod.ok
                       THEN [j \in 1..Len(subMod.mod.Require) |->
                                Edge(req.Path, subMod.mod.Require[j].Path,
                                     subMod.mod.Require[j].Version)]
                       ELSE <<>>
         IN  <<Edge(m.HolonPath, req.Path, req.Version)>> \o subs \o GraphEdges(c, m, i + 1)

\* (*Server).Graph: [fs, code, root, edges]
ServerGraph(fs) ==
    LET p == Parse(fs.modFile)
    IN  IF ~p.ok
        THEN [fs |-> fs, code |-> "NotFound", root |-> "", edges |-> <<>>]
        ELSE [fs |-> fs, code |-> "OK", root |-> p.mod.HolonPath,
              edges |-> GraphEdges(fs.cache, p.mod, 1)]

\* copyDir(src, dst): the files of dst afterwards; a file of src replaces the
\* file dst has at the same relative path.
copyDir(src, dst) ==
    Dir({f \in dst.files : \A g \in src.files : g.rel # f.rel} \cup src.files)

\* A Vendor loop that passes over a requirement whose snapshot is not cached.
RECURSIVE VendorLoopSkips(_, _, _, _)
VendorLoopSkips(c, m, i, st) ==
    IF i > Len(m.Require) \/ st.code # "OK" THEN st
    ELSE LET dep  == m.Require[i]
             src  == DirAt(c, cachePathFor(dep.Path, dep.Version))
             name == filepathBase(dep.Path)
         IN  IF ResolvedPath(m, dep.Path) # "" \/ ~src.exists
             THEN VendorLoopSkips(c, m, i + 1, st)
             ELSE VendorLoopSkips(c, m, i + 1,
                      [st EXCEPT !.vendor[name] = copyDir(src, @),
                                 !.vendored = Append(@, Dependency(dep.Path, dep.Version,
                                                                   ".holon/" \o name))])

\* The loop of Vendor from requirement i on.  st: the vendor directory, the
\* vendored list and the code the loop ended with.
RECURSIVE VendorLoop(_, _, _, _)
VendorLoop(c, m, i, st) ==
    IF i > Len(m.Require) \/ st.code # "OK" THEN st
    ELSE LET dep  == m.Require[i]
             src  == DirAt(c, cachePathFor(dep.Path, dep.Version))
             name == filepathBase(dep.Path)
         IN  IF ResolvedPath(m, dep.Path) # ""
             THEN VendorLoop(c, m, i + 1, st)
             ELSE IF ~src.exists
             THEN [st EXCEPT !.code = "FailedPrecondition"]
             ELSE VendorLoop(c, m, i + 1,
                      [st EXCEPT !.vendor[name] = copyDir(src, @),
                                 !.vendored = Append(@, Dependency(dep.Path, dep.Version,
                                                                   ".holon/" \o name))])

\* Vendor that copies over the vendor directory it finds.
ServerVendorKeeps(fs) ==
    LET p  == Parse(fs.modFile)
        st == VendorLoop(fs.cache, p.mod, 1,
                         [vendor |-> fs.vendor, vendored |-> <<>>, code |-> "OK"])
    IN  IF ~p.ok
        THEN [fs |-> fs, code |-> "NotFound", vendored |-> <<>>]
        ELSE [fs |-> [fs EXCEPT !.vendor = st.vendor], code |-> st.code,
              vendored |-> IF st.code = "OK" THEN st.vendored ELSE <<>>]

\* (*Server).Vendor: [fs, code, vendored]
ServerVendor(fs) ==
    LET p  == Parse(fs.modFile)
        st == VendorLoop(fs.cache, p.mod, 1,
                         [vendor |-> [d \in DOMAIN fs.vendor |-> NoDir],
                          vendored |-> <<>>, code |-> "OK"])
    IN  IF ~p.ok
        THEN [fs |-> fs, code |-> "NotFound", vendored |-> <<>>]
        ELSE [fs |-> [fs EXCEPT !.vendor = st.vendor], code |-> st.code,
              vendored |-> IF st.code = "OK" THEN st.vendored ELSE <<>>]

\* Remove that also drops the holon.sum entries of the path.
ServerRemovePrunes(fs, path) ==
    LET p == Parse(fs.modFile)
        r == RemoveRequire(p.mod, path)
        s == ParseSum(fs.sumFile).sum
        kept == SelectSeq(s.Entries, LAMBDA e : e.Path # path)
    IN  IF ~p.ok \/ ~r.ret
        THEN [fs |-> fs, code |-> "NotFound"]
        ELSE [fs |-> [fs EXCEPT !.modFile = ModFileWrite(r.mod),
                                !.sumFile = SumFileWrite([Entries |-> kept]).file],
              code |-> "OK"]

\* (*Server).Remove: [fs, code]
ServerRemove(fs, path) ==
    LET p == Parse(fs.modFile)
        r == RemoveRequire(p.mod, path)
    IN  IF ~p.ok
        THEN [fs |-> fs, code |-> "NotFound"]
        ELSE IF ~r.ret
        THEN [fs |-> fs, code |-> "NotFound"]
        ELSE [fs |-> [fs EXCEPT !.modFile = ModFileWrite(r.mod)], code |-> "OK"]

(***************************************************************************)
(* The server: one project directory, the cache, requests one at a time.   *)
(***************************************************************************)

\* The directories Vendor makes below <dir>/.holon.
VendorDirs == {filepathBase(p) : p \in Paths}

Fs == [modFile |-> modFile, sumFile |-> sumFile, cache |-> cache, vendor |-> vendor]

Init ==
    /\ modFile = NoFile
    /\ sumFile = NoFile
    /\ cache = [d \in CacheDirs \cup CacheParents |-> NoDir]
    /\ vendor = [d \in VendorDirs |-> NoDir]
    /\ resp = Resp("none", "", "", "", "OK", "", "none")
    /\ mod = ModFile("")
    /\ sum = SumFile
    /\ call = ModCall("new", "", "", TRUE, ModFile(""), FALSE)

DoInit(holonPath) ==
    \E r \in {ServerInit(Fs, holonPath)} :
        /\ modFile' = r.fs.modFile
        /\ sumFile' = r.fs.sumFile
        /\ cache' = r.fs.cache
        /\ vendor' = r.fs.vendor
        /\ resp' = Resp("Init", holonPath, "", "", r.code, "", "none")
        /\ UNCHANGED <<mod, sum, call>>

DoAdd(path, version, gitOk) ==
    \E r \in {ServerAdd(Fs, path, version, gitOk)} :
        /\ Len(Parse(r.fs.modFile).mod.Require) <= MaxReq
        /\ modFile' = r.fs.modFile
        /\ sumFile' = r.fs.sumFile
        /\ cache' = r.fs.cache
        /\ vendor' = r.fs.vendor
        /\ resp' = [Resp("Add", "", path, version, r.code, r.cachePath, r.git)
                       EXCEPT !.cmds = FetchCmds(r, path, version)]
        /\ UNCHANGED <<mod, sum, call>>

DoRemove(path) ==
    \E r \in {ServerRemove(Fs, path)} :
        /\ modFile' = r.fs.modFile
        /\ sumFile' = r.fs.sumFile
        /\ cache' = r.fs.cache
        /\ vendor' = r.fs.vendor
        /\ resp' = Resp("Remove", "", path, "", r.code, "", "none")
        /\ UNCHANGED <<mod, sum, call>>

DoPull(gitOk) ==
    \E r \in {ServerPull(Fs, gitOk)} :
        /\ modFile' = r.fs.modFile
        /\ sumFile' = r.fs.sumFile
        /\ cache' = r.fs.cache
        /\ vendor' = r.fs.vendor
        /\ resp' = [Resp("Pull", "", "", "", r.code, "", "none")
                       EXCEPT !.fetched = r.fetched, !.cmds = r.cmds]
        /\ UNCHANGED <<mod, sum, call>>

DoVerify ==
    \E r \in {ServerVerify(Fs)} :
        /\ modFile' = r.fs.modFile
        /\ sumFile' = r.fs.sumFile
        /\ cache' = r.fs.cache
        /\ vendor' = r.fs.vendor
        /\ resp' = [Resp("Verify", "", "", "", r.code, "", "none")
                       EXCEPT !.ok = r.ok, !.errors = r.errors]
        /\ UNCHANGED <<mod, sum, call>>

DoGraph ==
    \E r \in {ServerGraph(Fs)} :
        /\ modFile' = r.fs.modFile
        /\ sumFile' = r.fs.sumFile
        /\ cache' = r.fs.cache
        /\ vendor' = r.fs.vendor
        /\ resp' = [Resp("Graph", "", "", "", r.code, "", "none")
                       EXCEPT !.root = r.root, !.edges = r.edges]
        /\ UNCHANGED <<mod, sum, call>>

DoUpdate(ls) ==
    \E r \in {ServerUpdate(Fs, ls)} :
        /\ modFile' = r.fs.modFile
        /\ sumFile' = r.fs.sumFile
        /\ cache' = r.fs.cache
        /\ vendor' = r.fs.vendor
        /\ resp' = [Resp("Update", "", "", "", r.code, "", "none")
                       EXCEPT !.updated = r.updated, !.cmds = r.cmds]
        /\ UNCHANGED <<mod, sum, call>>

DoVendor ==
    \E r \in {ServerVendor(Fs)} :
        /\ modFile' = r.fs.modFile
        /\ sumFile' = r.fs.sumFile
        /\ cache' = r.fs.cache
        /\ vendor' = r.fs.vendor
        /\ resp' = [Resp("Vendor", "", "", "", r.code, "", "none")
                       EXCEPT !.vendored = r.vendored]
        /\ UNCHANGED <<mod, sum, call>>

DoCleanCache ==
    \E r \in {ServerCleanCache(Fs)} :
        /\ modFile' = r.fs.modFile
        /\ sumFile' = r.fs.sumFile
        /\ cache' = r.fs.cache
        /\ vendor' = r.fs.vendor
        /\ resp' = Resp("CleanCache", "", "", "", r.code, r.cachePath, "none")
        /\ UNCHANGED <<mod, sum, call>>

\* The user edits holon.mod: replacements becomes the list of directives of
\* its replace block, under a comment line.
EditReplace(replacements) ==
    /\ Parse(modFile).ok
    /\ Parse(modFile).mod.Replace # replacements
    /\ modFile' = File(<< <<"//c">> >>
                         \o ModFileLines([Parse(modFile).mod EXCEPT !.Replace = replacements]))
    /\ resp' = Resp("EditReplace", "", "", "", "OK", "", "none")
    /\ UNCHANGED <<sumFile, cache, vendor, mod, sum, call>>

\* Something outside the program overwrites the file src of a cached snapshot.
Tamper(cachePath) ==
    /\ cache[cachePath].exists
    /\ Blob("src", <<<<"x">>>>) \notin cache[cachePath].files
    /\ cache' = [cache EXCEPT ![cachePath] =
                     Dir({f \in @.files : f.rel # "src"} \cup {Blob("src", <<<<"x">>>>)})]
    /\ resp' = Resp("Tamper", "", "", "", "OK", cachePath, "none")
    /\ UNCHANGED <<modFile, sumFile, vendor, mod, sum, call>>

\* Something outside the program leaves holon.mod malformed: a require block
\* with a line of one field.
GarbleMod ==
    /\ Parse(modFile).ok
    /\ modFile' = File(modFile.lines \o << <<"require", "(">>, <<"a">>, <<")">> >>)
    /\ resp' = Resp("GarbleMod", "", "", "", "OK", "", "none")
    /\ UNCHANGED <<sumFile, cache, vendor, mod, sum, call>>

\* Something outside the program leaves holon.sum malformed: a line of two
\* fields.
GarbleSum ==
    /\ ParseSum(sumFile).ok
    /\ sumFile' = File(sumFile.lines \o << <<"a", "v1">> >>)
    /\ resp' = Resp("GarbleSum", "", "", "", "OK", "", "none")
    /\ UNCHANGED <<modFile, cache, vendor, mod, sum, call>>

Next ==
    \/ \E h \in RootPaths : DoInit(h)
    \/ \E p \in Paths, v \in Versions, gitOk \in BOOLEAN : DoAdd(p, v, gitOk)
    \/ \E p \in Paths : DoRemove(p)

Spec == Init /\ [][Next]_vars

(***************************************************************************)
(* The server with every operation, serving a project that depends on one  *)
(* holon, o/a, whose remote has the tags v1.2.0 and v1.3.0.  The user      *)
(* edits the replace block of holon.mod; cached files get overwritten.     *)
(***************************************************************************)

CachePaths    == {"o/a"}
CacheAdds     == {"v1.2.0"}
CacheRoots    == {"r"}
CacheLs       == {LsRemoteFails, LsRemote(<<"v1.2.0", "v1.3.0">>)}
CacheReplaces == {<<>>, <<Replace("o/a", "l")>>}

NextCache ==
    \/ \E h \in CacheRoots : DoInit(h)
    \/ \E p \in CachePaths, v \in CacheAdds, gitOk \in BOOLEAN : DoAdd(p, v, gitOk)
    \/ \E p \in CachePaths : DoRemove(p)
    \/ \E gitOk \in [CachePaths -> BOOLEAN] : DoPull(gitOk)
    \/ DoVerify
    \/ DoGraph
    \/ \E ls \in [CachePaths -> CacheLs] : DoUpdate(ls)
    \/ DoVendor
    \/ DoCleanCache
    \/ \E rp \in CacheReplaces : EditReplace(rp)
    \/ \E p \in CachePaths, v \in CacheVersions : Tamper(cachePathFor(p, v))

SpecCache == Init /\ [][NextCache]_vars

(***************************************************************************)
(* Verify in a project that depends on a and o/a at one version each, with *)
(* replace directives written by the user, cached files overwritten and    *)
(* the cache purged.                                                        *)
(***************************************************************************)

VerifyAdds     == {"v1.2.0"}
VerifyRoots    == {"r"}
VerifyReplaces == {<<>>, <<Replace("a", "l")>>, <<Replace("o/a", "l"), Replace("a", "s")>>}

NextVerify ==
    \/ \E h \in VerifyRoots : DoInit(h)
    \/ \E p \in Paths, v \in VerifyAdds, gitOk \in BOOLEAN : DoAdd(p, v, gitOk)
    \/ DoVerify
    \/ DoCleanCache
    \/ \E rp \in VerifyReplaces : EditReplace(rp)
    \/ \E p \in Paths, v \in VerifyAdds : Tamper(cachePathFor(p, v))

SpecVerify == Init /\ [][NextVerify]_vars

(***************************************************************************)
(* Graph in a project that depends on a and o/a at two versions: the       *)
(* snapshots hold a holon.mod with requirements (a@v1.2.0, o/a@v1.2.0), a  *)
(* malformed one (o/a@v1.3.0) or none (a@v1.3.0).                          *)
(***************************************************************************)

GraphAdds  == {"v1.2.0", "v1.3.0"}
GraphRoots == {"r"}

NextGraph ==
    \/ \E h \in GraphRoots : DoInit(h)
    \/ \E p \in Paths, v \in GraphAdds, gitOk \in BOOLEAN : DoAdd(p, v, gitOk)
    \/ \E p \in Paths : DoRemove(p)
    \/ DoGraph

SpecGraph == Init /\ [][NextGraph]_vars

(***************************************************************************)
(* Update in a project that depends on a, added at a tag, and on o/a,      *)
(* added at a tag or at a branch.  The remote of a cannot be listed or lists tags of major 1 and  *)
(* 2; that of o/a cannot be listed, or lists a branch among tags of major  *)
(* 1, or a tag of major 2 only.                                            *)
(***************************************************************************)

UpdateAdds     == {<<"a", "v1.2.0">>, <<"o/a", "v1.2.0">>, <<"o/a", "main">>}
UpdateRoots    == {"r"}
UpdateReplaces == {<<>>, <<Replace("a", "l")>>}
UpdateLs ==
    { ls \in [Paths -> { LsRemoteFails,
                         LsRemote(<<"v1.2.0", "v1.3.0", "v2.0.0">>),
                         LsRemote(<<"v1.10.0", "main", "v1.3.0">>),
                         LsRemote(<<"v2.0.0">>) }] :
        /\ ls["a"] \in {LsRemoteFails, LsRemote(<<"v1.2.0", "v1.3.0", "v2.0.0">>)}
        /\ ls["o/a"] # LsRemote(<<"v1.2.0", "v1.3.0", "v2.0.0">>) }

NextUpdate ==
    \/ \E h \in UpdateRoots : DoInit(h)
    \/ \E pv \in UpdateAdds, gitOk \in BOOLEAN : DoAdd(pv[1], pv[2], gitOk)
    \/ \E ls \in UpdateLs : DoUpdate(ls)
    \/ \E rp \in UpdateReplaces : EditReplace(rp)

SpecUpdate == Init /\ [][NextUpdate]_vars

(***************************************************************************)
(* Vendor in a project that depends on a and o/a, two paths with the same  *)
(* last element, while requirements are added (every clone succeeds),      *)
(* removed, replaced and updated and the cache is purged.                  *)
(***************************************************************************)

VendorAdds     == {<<"a", "v1.2.0">>, <<"a", "v1.3.0">>, <<"o/a", "v1.2.0">>}
VendorRoots    == {"r"}
VendorReplaces == {<<>>, <<Replace("o/a", "l")>>}
VendorLs       == {[p \in Paths |-> IF p = "a" THEN LsRemote(<<"v1.2.0", "v1.3.0">>)
                                                ELSE LsRemoteFails]}

NextVendor ==
    \/ \E h \in VendorRoots : DoInit(h)
    \/ \E pv \in VendorAdds : DoAdd(pv[1], pv[2], TRUE)
    \/ \E p \in Paths : DoRemove(p)
    \/ \E ls \in VendorLs : DoUpdate(ls)
    \/ DoVendor
    \/ DoCleanCache
    \/ \E rp \in VendorReplaces : EditReplace(rp)

SpecVendor == Init /\ [][NextVendor]_vars

(***************************************************************************)
(* Pull and Update in a project that depends on a and o/a, added at        *)
(* v1.2.0 while the remotes cannot be reached: each clone of Pull succeeds *)
(* or fails, the remotes list v1.3.0 too, and the user replaces a.         *)
(***************************************************************************)

PullAdds     == {"v1.2.0"}
PullRoots    == {"r"}
PullReplaces == {<<>>, <<Replace("a", "l")>>}
PullLs       == {[p \in Paths |-> LsRemote(<<"v1.2.0", "v1.3.0">>)],
                 [p \in Paths |-> IF p = "a" THEN LsRemoteFails
                                             ELSE LsRemote(<<"v1.2.0", "v1.3.0">>)]}

NextPull ==
    \/ \E h \in PullRoots : DoInit(h)
    \/ \E p \in Paths, v \in PullAdds : DoAdd(p, v, FALSE)
    \/ \E gitOk \in [Paths -> BOOLEAN] : DoPull(gitOk)
    \/ \E ls \in PullLs : DoUpdate(ls)
    \/ \E rp \in PullReplaces : EditReplace(rp)

SpecPull == Init /\ [][NextPull]_vars

(***************************************************************************)
(* The operations on a project that depends on o/a whose holon.mod or      *)
(* holon.sum gets malformed.                                               *)
(***************************************************************************)

FaultAdds  == {"v1.2.0"}
FaultRoots == {"r"}
FaultLs    == {LsRemote(<<"v1.2.0", "v1.3.0">>)}

NextFault ==
    \/ \E h \in FaultRoots : DoInit(h)
    \/ \E p \in CachePaths, v \in FaultAdds, gitOk \in BOOLEAN : DoAdd(p, v, gitOk)
    \/ \E p \in CachePaths : DoRemove(p)
    \/ \E gitOk \in [CachePaths -> BOOLEAN] : DoPull(gitOk)
    \/ \E ls \in [CachePaths -> FaultLs] : DoUpdate(ls)
    \/ DoVerify
    \/ DoGraph
    \/ DoVendor
    \/ GarbleMod
    \/ GarbleSum

SpecFault == Init /\ [][NextFault]_vars

(***************************************************************************)
(* hashDir on small directory trees: regular files named ab, aba and ba,   *)
(* empty or of one line, and the directory src.  A file is renamed, a byte *)
(* of a file is changed, an empty directory is made, and the tree is       *)
(* hashed before and after.                                                *)
(***************************************************************************)

HashNames == {"ab", "aba", "ba"}
HashData  == {<<>>, << <<"x">> >>, << <<"y">> >>}
HashDirs  == {"src"}

\* An entry filepath.WalkDir visits below dir: a directory or a regular file.
Entry(rel, isDir, data) == [rel |-> rel, isDir |-> isDir, data |-> data]

\* The entries hashDir does not pass over: "if d.IsDir() { return nil }".
RegularFiles(entries) == {Blob(e.rel, e.data) : e \in {x \in entries : ~x.isDir}}

\* hashDir of a directory with these entries.
hashEntries(entries) == hashDir(Dir(RegularFiles(entries)))

HashTrees ==
    { {Entry(n, FALSE, t[n]) : n \in S} : S \in SUBSET HashNames, t \in [HashNames -> HashData] }

\* A step on a tree: what was done, the tree before and after, and hashDir of both.
HashCall(op, before, tree) ==
    [op |-> op, before |-> before, tree |-> tree,
     was |-> hashEntries(before), digest |-> hashEntries(tree)]

InitHash ==
    /\ IdleServer
    /\ mod = ModFile("")
    /\ sum = SumFile
    /\ call \in {HashCall("new", t, t) : t \in HashTrees}

\* hashDir(dir) is called again on the tree as it is.
CallHashDir ==
    /\ call' = HashCall("hashDir", call.tree, call.tree)
    /\ UNCHANGED <<modFile, sumFile, cache, vendor, resp, mod, sum>>

\* os.Rename of a regular file to a name that is free.
RenameFile(old, new) ==
    /\ \E e \in call.tree :
           /\ e.rel = old
           /\ \A x \in call.tree : x.rel # new
           /\ call' = HashCall("rename", call.tree,
                                (call.tree \ {e}) \cup {[e EXCEPT !.rel = new]})
    /\ UNCHANGED <<modFile, sumFile, cache, vendor, resp, mod, sum>>

\* One byte of a regular file is overwritten by another.
ChangeByte(name, data) ==
    /\ \E e \in call.tree :
           /\ e.rel = name
           /\ e.data # <<>>
           /\ data # <<>>
           /\ data # e.data
           /\ call' = HashCall("change", call.tree,
                                (call.tree \ {e}) \cup {[e EXCEPT !.data = data]})
    /\ UNCHANGED <<modFile, sumFile, cache, vendor, resp, mod, sum>>

\* os.Mkdir of an empty directory below dir.
MkdirEmpty(d) ==
    /\ \A x \in call.tree : x.rel # d
    /\ call' = HashCall("mkdir", call.tree, call.tree \cup {Entry(d, TRUE, <<>>)})
    /\ UNCHANGED <<modFile, sumFile, cache, vendor, resp, mod, sum>>

NextHash ==
    \/ CallHashDir
    \/ \E old \in HashNames, new \in HashNames : RenameFile(old, new)
    \/ \E n \in HashNames, d \in HashData : ChangeByte(n, d)
    \/ \E d \in HashDirs : MkdirEmpty(d)

SpecHash == InitHash /\ [][NextHash]_vars

(***************************************************************************)
(* Two Add requests served at the same time on one project directory, one  *)
(* for a and one for o/a.  Each handler goes through its file operations   *)
(* in order: Parse reads holon.mod, Write creates (truncates) it and then  *)
(* prints it, then the snapshot is fetched and holon.sum updated.  The     *)
(* bytes Write prints are taken to reach the file together.                *)
(***************************************************************************)

Adders       == {1, 2}
AdderPath    == <<"a", "o/a">>
RaceVersions == {"v1.2.0", "v1.3.0"}
RaceRoots    == {"r", "s"}

\* The requests in flight: where each handler is ("start", "parsed",
\* "created", "written", "done"), the version it was asked for, the ModFile it
\* holds in memory, and whether a handler has parsed holon.mod while the other
\* one held a ModFile it had not finished writing.
RaceCall(pc, version, held, overlap) ==
    [pc |-> pc, version |-> version, held |-> held, overlap |-> overlap]

InitRace ==
    /\ modFile \in {ModFileWrite(ModFile(h)) : h \in RaceRoots}
    /\ sumFile = NoFile
    /\ cache = [d \in CacheDirs \cup CacheParents |-> NoDir]
    /\ vendor = [d \in VendorDirs |-> NoDir]
    /\ resp = Resp("none", "", "", "", "OK", "", "none")
    /\ mod = ModFile("")
    /\ sum = SumFile
    /\ call \in {RaceCall([p \in Adders |-> "start"], v, [p \in Adders |-> ModFile("")], FALSE) :
                     v \in [Adders -> RaceVersions]}

\* mod, err := modfile.Parse(modPath); mod.AddRequire(req.Path, req.Version)
AddParse(p) ==
    /\ call.pc[p] = "start"
    /\ LET r == Parse(modFile)
           busy == \E q \in Adders \ {p} : call.pc[q] \in {"parsed", "created"}
       IN  IF ~r.ok
           THEN /\ call' = [call EXCEPT !.pc[p] = "done"]
                /\ resp' = Resp("Add", "", AdderPath[p], call.version[p], "NotFound", "", "none")
           ELSE /\ call' = [call EXCEPT !.pc[p] = "parsed",
                                        !.held[p] = AddRequire(r.mod, AdderPath[p],
                                                               call.version[p]).mod,
                                        !.overlap = @ \/ busy]
                /\ resp' = resp
    /\ UNCHANGED <<modFile, sumFile, cache, vendor, mod, sum>>

\* mod.Write(modPath), os.Create: holon.mod is there and empty.
AddCreate(p) ==
    /\ call.pc[p] = "parsed"
    /\ modFile' = File(<<>>)
    /\ call' = [call EXCEPT !.pc[p] = "created"]
    /\ UNCHANGED <<sumFile, cache, vendor, resp, mod, sum>>

\* mod.Write(modPath), the Fprintf calls: holon.mod holds the ModFile in memory.
AddPrint(p) ==
    /\ call.pc[p] = "created"
    /\ modFile' = ModFileWrite(call.held[p])
    /\ call' = [call EXCEPT !.pc[p] = "written"]
    /\ UNCHANGED <<sumFile, cache, vendor, resp, mod, sum>>

\* fetchToCache, the holon.sum update and the response.
AddFetch(p, gitOk) ==
    /\ call.pc[p] = "written"
    /\ LET f   == fetchToCache(cache, AdderPath[p], call.version[p], gitOk)
           dir == IF f.cachePath = "" THEN NoDir ELSE f.cache[f.cachePath]
           u   == AddSum(sumFile, dir, f.cachePath, AdderPath[p], call.version[p])
       IN  /\ cache' = f.cache
           /\ sumFile' = u.sumFile
           /\ resp' = [Resp("Add", "", AdderPath[p], call.version[p],
                            IF u.panic THEN "panic" ELSE "OK", f.cachePath, f.git)
                          EXCEPT !.cmds = FetchCmds(f, AdderPath[p], call.version[p])]
    /\ call' = [call EXCEPT !.pc[p] = "done"]
    /\ UNCHANGED <<modFile, vendor, mod, sum>>

NextRace ==
    \/ \E p \in Adders : AddParse(p)
    \/ \E p \in Adders : AddCreate(p)
    \/ \E p \in Adders : AddPrint(p)
    \/ \E p \in Adders, gitOk \in BOOLEAN : AddFetch(p, gitOk)

SpecRace == InitRace /\ [][NextRace]_vars

(***************************************************************************)
(* Update in a project that depends on a, added at v1.2.0 or v1.3.0, when  *)
(* the remote of a lists an older tag only, the same tags, or one version  *)
(* spelled with and without the leading "v".                               *)
(***************************************************************************)

TagAdds  == {"v1.2.0", "v1.3.0"}
TagRoots == {"r"}
TagLs ==
    { [p \in Paths |-> l] : l \in { LsRemote(<<"v1.2.0">>),
                                    LsRemote(<<"v1.2.0", "v1.3.0">>),
                                    LsRemote(<<"v1.3.0", "1.3.0">>) } }

NextTags ==
    \/ \E h \in TagRoots : DoInit(h)
    \/ \E v \in TagAdds, gitOk \in BOOLEAN : DoAdd("a", v, gitOk)
    \/ DoRemove("a")
    \/ \E ls \in TagLs : DoUpdate(ls)

SpecTags == Init /\ [][NextTags]_vars

(***************************************************************************)
(* Init, Add, Remove and Update with the argument strings a client may     *)
(* send: AddRequest.Version may be empty, Add does not look at it.  git    *)
(* clone --branch "" finds no such branch or tag, so that clone fails.     *)
(***************************************************************************)

LoadAdds  == {"v1.2.0", ""}
LoadRoots == {"r"}
LoadLs    == {[p \in Paths |-> LsRemote(<<"v1.2.0", "v1.3.0">>)]}

NextLoad ==
    \/ \E h \in LoadRoots : DoInit(h)
    \/ \E p \in Paths, v \in LoadAdds :
          \E gitOk \in (IF v = "" THEN {FALSE} ELSE BOOLEAN) : DoAdd(p, v, gitOk)
    \/ \E p \in Paths : DoRemove(p)
    \/ \E ls \in LoadLs : DoUpdate(ls)

SpecLoad == Init /\ [][NextLoad]_vars

(***************************************************************************)
(* Pull and Verify in a project whose holon.mod has no replace block and   *)
(* is changed by Init, Add, Remove and Update only; the cache is filled by *)
(* Add and Pull and emptied by Update and CleanCache.                      *)
(***************************************************************************)

RepullPaths == Paths
RepullAdds  == {"v1.2.0"}
RepullRoots == {"r"}
RepullLs    == {[p \in Paths |-> LsRemote(<<"v1.2.0", "v1.3.0">>)]}

NextRepull ==
    \/ \E h \in RepullRoots : DoInit(h)
    \/ \E p \in RepullPaths, v \in RepullAdds, gitOk \in BOOLEAN : DoAdd(p, v, gitOk)
    \/ \E p \in RepullPaths : DoRemove(p)
    \/ \E gitOk \in [RepullPaths -> BOOLEAN] : DoPull(gitOk)
    \/ \E ls \in RepullLs : DoUpdate(ls)
    \/ DoCleanCache
    \/ DoVerify

SpecRepull == Init /\ [][NextRepull]_vars

\* The requirement (path, version) is in the manifest file f.
Requires(f, path, version) ==
    LET p == Parse(f)
    IN  p.ok /\ \E i \in 1..Len(p.mod.Require) : p.mod.Require[i] = Require(path, version)

\* C7: Init with an empty root path fails with InvalidArgument and creates
\* nothing; Init where holon.mod exists fails with AlreadyExists and leaves the
\* manifest (requirements added since included) as it is; otherwise Init
\* creates a manifest with that root path and no requires and no replaces.
C7_Init ==
    [][resp'.op = "Init" =>
          LET h == resp'.holonPath
          IN  /\ h = "" =>
                   /\ resp'.code = "InvalidArgument"
                   /\ UNCHANGED <<modFile, sumFile, cache>>
              /\ (h # "" /\ modFile.exists) =>
                   /\ resp'.code = "AlreadyExists"
                   /\ UNCHANGED <<modFile, sumFile, cache>>
              /\ (h # "" /\ ~modFile.exists) =>
                   /\ resp'.code = "OK"
                   /\ Parse(modFile') = [ok |-> TRUE, mod |-> ModFile(h)]
                   /\ UNCHANGED <<sumFile, cache>>
      ]_vars

\* A second Init, with another root path, refused on a manifest that has
\* requirements.
C7_Witness ==
    /\ resp.op = "Init"
    /\ resp.code = "AlreadyExists"
    /\ Parse(modFile).ok
    /\ Len(Parse(modFile).mod.Require) > 0
    /\ Parse(modFile).mod.HolonPath # resp.holonPath

\* C8: an Add whose fetch fails returns no error and an empty cache path, the
\* requirement (path, version) is in the persisted manifest, and holon.sum is
\* not modified.
C8_AddFetchFails ==
    [][(resp'.op = "Add" /\ resp'.git = "fail") =>
          /\ resp'.code = "OK"
          /\ resp'.cachePath = ""
          /\ Requires(modFile', resp'.path, resp'.version)
          /\ sumFile' = sumFile
      ]_vars

\* A failed fetch in a project whose holon.sum has entries.
C8_Witness ==
    /\ resp.op = "Add"
    /\ resp.git = "fail"
    /\ resp.code = "OK"
    /\ Len(sumFile.lines) > 0
    /\ Requires(modFile, resp.path, resp.version)

HasHolonMD(dir) == \E f \in dir.files : f.rel = "HOLON.md"

\* C9 (as claimed): after an Add whose fetch succeeded the requirement is in
\* the manifest and holon.sum has two entries for it: (path, version) with
\* "h1:" + the snapshot hash and (path, version/HOLON.md) with "h1:" + the
\* HOLON.md hash.
C9_TwoSumEntries ==
    (resp.op = "Add" /\ resp.git = "ok") =>
        LET s == ParseSum(sumFile).sum
            d == cache[resp.cachePath]
        IN  /\ Requires(modFile, resp.path, resp.version)
            /\ Lookup(s, resp.path, resp.version) = "h1:" \o hashDir(d)
            /\ Lookup(s, resp.path, resp.version \o "/HOLON.md")
                   = "h1:" \o hashFile(d, "HOLON.md")
            /\ hashFile(d, "HOLON.md") # ""

\* C9 (amended): after an Add that returns a cache path the requirement is in
\* the manifest and holon.sum holds (path, version) with "h1:" + the hash of
\* the cached snapshot; it holds (path, version/HOLON.md) with "h1:" + the hash
\* of HOLON.md when the snapshot has a HOLON.md, and the entry of that key is
\* left as it was when the snapshot has none.
C9_AddSumEntries ==
    [][(resp'.op = "Add" /\ resp'.code = "OK" /\ resp'.cachePath # "") =>
          LET s == ParseSum(sumFile').sum
              d == cache'[resp'.cachePath]
              metaKey == resp'.version \o "/HOLON.md"
          IN  /\ Requires(modFile', resp'.path, resp'.version)
              /\ d.exists
              /\ ParseSum(sumFile').ok
              /\ Lookup(s, resp'.path, resp'.version) = "h1:" \o hashDir(d)
              /\ HasHolonMD(d) =>
                    Lookup(s, resp'.path, metaKey) = "h1:" \o hashFile(d, "HOLON.md")
              /\ ~HasHolonMD(d) =>
                    Lookup(s, resp'.path, metaKey)
                        = Lookup(ParseSum(sumFile).sum, resp'.path, metaKey)
      ]_vars

\* An Add that fetched a snapshot without HOLON.md into a project whose
\* holon.sum already has the two entries of another dependency.
C9_Witness ==
    /\ resp.op = "Add"
    /\ resp.git = "ok"
    /\ resp.code = "OK"
    /\ ~HasHolonMD(cache[resp.cachePath])
    /\ Len(sumFile.lines) = 3
    /\ Lookup(ParseSum(sumFile).sum, resp.path, resp.version) # ""
    /\ Lookup(ParseSum(sumFile).sum, resp.path, resp.version \o "/HOLON.md") = ""

\* C10: Remove of a path the manifest requires returns OK, deletes that one
\* requirement and nothing else from the manifest, and leaves holon.sum and
\* the cache as they were; Remove of a path it does not require fails with
\* NotFound and leaves manifest, holon.sum and cache as they were.
C10_Remove ==
    [][resp'.op = "Remove" =>
          LET old == Parse(modFile)
              new == Parse(modFile')
              had == old.ok /\ \E i \in 1..Len(old.mod.Require) :
                                  old.mod.Require[i].Path = resp'.path
          IN  /\ had =>
                   /\ resp'.code = "OK"
                   /\ new.ok
                   /\ new.mod.HolonPath = old.mod.HolonPath
                   /\ new.mod.Replace = old.mod.Replace
                   /\ \E i \in 1..Len(old.mod.Require) :
                         /\ old.mod.Require[i].Path = resp'.path
                         /\ new.mod.Require = SubSeq(old.mod.Require, 1, i - 1)
                               \o SubSeq(old.mod.Require, i + 1, Len(old.mod.Require))
                   /\ UNCHANGED <<sumFile, cache>>
              /\ ~had =>
                   /\ resp'.code = "NotFound"
                   /\ UNCHANGED <<modFile, sumFile, cache>>
      ]_vars

\* A Remove that leaves another requirement, and the removed path's holon.sum
\* entries and cache entry, behind.
C10_Witness ==
    /\ resp.op = "Remove"
    /\ resp.code = "OK"
    /\ Len(Parse(modFile).mod.Require) = 1
    /\ Parse(modFile).mod.Require[1].Path # resp.path
    /\ \E i \in 1..Len(sumFile.lines) : sumFile.lines[i][1] = resp.path
    /\ \E v \in Versions : cache[cachePathFor(resp.path, v)].exists

\* The request ran git clone for (path, version).
Cloned(r, path, version) ==
    \E i \in 1..Len(r.cmds) :
        r.cmds[i].cmd = "clone" /\ r.cmds[i].path = path /\ r.cmds[i].version = version

\* C11: an Add or a Pull runs the fetcher for (path, version) only when the
\* cache holds no directory for that key, and leaves every cache directory
\* that exists, whatever its content, as it is: from its fetch until an Update
\* evicts it or CleanCache purges it, the entry is neither fetched again nor
\* changed by Add or Pull.
C11_FetchOnce ==
    [][resp'.op \in {"Add", "Pull"} =>
          \A p \in Paths, v \in CacheVersions :
              LET k == cachePathFor(p, v)
              IN  /\ Cloned(resp', p, v) => ~cache[k].exists
                  /\ cache[k].exists => cache'[k] = cache[k]
      ]_vars

\* A Pull that returned a dependency without running the fetcher, from a cache
\* directory whose file src had been overwritten since its fetch.
C11_Witness ==
    /\ resp.op = "Pull"
    /\ resp.code = "OK"
    /\ Len(resp.fetched) = 1
    /\ resp.cmds = <<>>
    /\ Blob("src", <<<<"x">>>>) \in cache[resp.fetched[1].CachePath].files

\* C12: a fetch that fails leaves the cache as it was before the call: no
\* directory for the key and no other new directory below the cache root.
C12_FailedFetch ==
    [][(resp'.op \in {"Add", "Pull"} /\ Len(resp'.cmds) = 1 /\ ~resp'.cmds[1].ok) =>
          cache' = cache
      ]_vars

\* The operations of the server.
Operations ==
    {"Init", "Add", "Remove", "Pull", "Verify", "Graph", "Update", "Vendor", "CleanCache"}

Replaced(f, path) == Parse(f).ok /\ ResolvedPath(Parse(f).mod, path) # ""

\* C14: for a path with an active replacement no Add, Pull, Update or Vendor
\* runs the fetcher or the tag lister, and Verify reports no "not in cache" and
\* no hash mismatch for the holon.sum entries of that path.
C14_ReplaceBypass ==
    [][\A p \in Paths : Replaced(modFile, p) =>
          /\ resp'.op \in {"Add", "Pull", "Update", "Vendor"} =>
                \A i \in 1..Len(resp'.cmds) : resp'.cmds[i].path # p
          /\ resp'.op = "Verify" =>
                \A i \in 1..Len(resp'.errors) :
                    resp'.errors[i].kind = "replace" \/ resp'.errors[i].path # p
      ]_vars

\* "h1:" and the hash of what the cache holds for a holon.sum entry: of the
\* snapshot, or of its HOLON.md when the version key ends in /HOLON.md; "" when
\* the directory, or the HOLON.md, is missing.
Recomputed(e) ==
    LET isMeta == \E v \in CacheVersions : e.Version = v \o "/HOLON.md"
        base   == IF isMeta THEN CHOOSE v \in CacheVersions : e.Version = v \o "/HOLON.md"
                  ELSE e.Version
        d      == cache[cachePathFor(e.Path, base)]
        h      == IF isMeta THEN hashFile(d, "HOLON.md") ELSE hashDir(d)
    IN  IF h = "" THEN "" ELSE "h1:" \o h

\* The entries of holon.sum.
Recorded == ParseSum(sumFile).sum.Entries

\* The replace directives of holon.mod.
Replacements == IF Parse(modFile).ok THEN Parse(modFile).mod.Replace ELSE <<>>

\* The indices of the problems of this kind in Verify's response.
ProblemsOf(kind) == {i \in 1..Len(resp.errors) : resp.errors[i].kind = kind}

\* The holon.sum entry e is among these problems of Verify's response.
Names(is, e) ==
    \E i \in is : resp.errors[i].path = e.Path /\ resp.errors[i].version = e.Version

\* C15 (as claimed): Verify on a holon.sum whose every recorded hash equals the
\* hash recomputed from the cache returns ok = true and no problems; where the
\* content of a cached snapshot differs from what was hashed, it returns
\* ok = false and a mismatch problem with the path and version.
C15_VerifyMatches ==
    (resp.op = "Verify" /\ resp.code = "OK") =>
        /\ (\A i \in 1..Len(Recorded) : Recomputed(Recorded[i]) = Recorded[i].Hash) =>
              resp.ok /\ resp.errors = <<>>
        /\ \A i \in 1..Len(Recorded) :
              Recomputed(Recorded[i]) \notin {"", Recorded[i].Hash} =>
                  ~resp.ok /\ Names(ProblemsOf("mismatch"), Recorded[i])

\* C15 (amended): the same, for the first half in a project whose holon.mod
\* has no replace directive.
C15_VerifyMatchesNoReplace ==
    (resp.op = "Verify" /\ resp.code = "OK") =>
        /\ (/\ Replacements = <<>>
            /\ \A i \in 1..Len(Recorded) : Recomputed(Recorded[i]) = Recorded[i].Hash) =>
              resp.ok /\ resp.errors = <<>>
        /\ \A i \in 1..Len(Recorded) :
              Recomputed(Recorded[i]) \notin {"", Recorded[i].Hash} =>
                  ~resp.ok /\ Names(ProblemsOf("mismatch"), Recorded[i])

\* A Verify after the file src of the snapshot of a was overwritten: one
\* mismatch, for (a, version); the HOLON.md entry of a and the entry of o/a
\* still match.
C15_Witness ==
    /\ resp.op = "Verify"
    /\ ~resp.ok
    /\ Len(Recorded) = 3
    /\ Len(resp.errors) = 1
    /\ resp.errors[1].kind = "mismatch"
    /\ resp.errors[1].path = "a"
    /\ resp.errors[1].version \in VerifyAdds
    /\ Blob("src", <<<<"x">>>>) \in cache[cachePathFor("a", resp.errors[1].version)].files

\* C16: Verify answers OK whenever holon.sum parses, with ok = true exactly
\* when it lists no problem; it lists one warning per replace directive, one
\* "not in cache" per holon.sum entry whose cache directory or HOLON.md is
\* missing, one mismatch per entry whose recomputed hash differs, and nothing
\* else; without holon.sum and replace directives ok is true.
C16_VerifyProblems ==
    resp.op = "Verify" =>
        /\ ParseSum(sumFile).ok => resp.code = "OK"
        /\ resp.code = "OK" =>
              /\ resp.ok <=> resp.errors = <<>>
              /\ Cardinality(ProblemsOf("replace")) = Len(Replacements)
              /\ Cardinality(ProblemsOf("not in cache"))
                    = Cardinality({i \in 1..Len(Recorded) : Recomputed(Recorded[i]) = ""})
              /\ Cardinality(ProblemsOf("mismatch"))
                    = Cardinality({i \in 1..Len(Recorded) :
                                      Recomputed(Recorded[i]) \notin {"", Recorded[i].Hash}})
              /\ Len(resp.errors) = Cardinality(ProblemsOf("replace"))
                    + Cardinality(ProblemsOf("not in cache")) + Cardinality(ProblemsOf("mismatch"))
              /\ \A i \in 1..Len(Recorded) :
                    /\ Recomputed(Recorded[i]) = "" =>
                          Names(ProblemsOf("not in cache"), Recorded[i])
                    /\ Recomputed(Recorded[i]) \notin {"", Recorded[i].Hash} =>
                          Names(ProblemsOf("mismatch"), Recorded[i])
              /\ (~sumFile.exists /\ Replacements = <<>>) => resp.ok

\* A Verify that lists the three kinds of problems: two replace warnings, the
\* two entries of a purged from the cache, the overwritten snapshot of o/a.
C16_Witness ==
    /\ resp.op = "Verify"
    /\ resp.code = "OK"
    /\ ~resp.ok
    /\ Cardinality(ProblemsOf("replace")) = 2
    /\ Cardinality(ProblemsOf("not in cache")) = 2
    /\ Cardinality(ProblemsOf("mismatch")) = 1

\* The requirements of the manifest.
Requirements == Parse(modFile).mod.Require

\* The requirements of the holon.mod in the cache directory of requirement i,
\* none when there is no such directory or file or it does not parse.
SubRequirements(i) ==
    LET d == cache[cachePathFor(Requirements[i].Path, Requirements[i].Version)]
        f == IF d.exists /\ \E b \in d.files : b.rel = "holon.mod"
             THEN Parse(File((CHOOSE b \in d.files : b.rel = "holon.mod").data))
             ELSE [ok |-> FALSE, mod |-> ModFile("")]
    IN  IF f.ok THEN f.mod.Require ELSE <<>>

\* The number of edges Graph gives for the requirements before i.
RECURSIVE EdgesBefore(_)
EdgesBefore(i) ==
    IF i = 1 THEN 0 ELSE EdgesBefore(i - 1) + 1 + Len(SubRequirements(i - 1))

\* C17: Graph returns, for each requirement in manifest order, the edge from
\* the root to path@version and right after it, when the cache directory of
\* the requirement holds a holon.mod that parses, one edge from the requirement
\* to each requirement of that holon.mod in its order, and no other edge: every
\* edge starts at the root or at a requirement of the manifest, and as many
\* edges start at the root as the manifest has requirements.
C17_GraphTwoTiers ==
    (resp.op = "Graph" /\ resp.code = "OK") =>
        LET root == Parse(modFile).mod.HolonPath
            n    == Len(Requirements)
        IN  /\ resp.root = root
            /\ Len(resp.edges) = EdgesBefore(n + 1)
            /\ \A i \in 1..n :
                  /\ resp.edges[EdgesBefore(i) + 1]
                        = [From |-> root, To |-> Requirements[i].Path,
                           Version |-> Requirements[i].Version]
                  /\ \A j \in 1..Len(SubRequirements(i)) :
                        resp.edges[EdgesBefore(i) + 1 + j]
                          = [From |-> Requirements[i].Path, To |-> SubRequirements(i)[j].Path,
                             Version |-> SubRequirements(i)[j].Version]
            /\ Cardinality({k \in 1..Len(resp.edges) : resp.edges[k].From = root}) = n

\* A Graph of a project that requires a only, while the cache holds the
\* snapshot of a's requirement o/a@v1.2.0, whose holon.mod has a requirement:
\* the root edge and the two edges of a's holon.mod, none from o/a.
C17_Witness ==
    /\ resp.op = "Graph"
    /\ resp.code = "OK"
    /\ Len(Requirements) = 1
    /\ Requirements[1] = Require("a", "v1.2.0")
    /\ Len(resp.edges) = 3
    /\ resp.edges[2].To = "o/a"
    /\ Blob("holon.mod", ModFileLines([ModFile("o/a") EXCEPT
                             !.Require = <<Require("c", "v1.3.0")>>]))
           \in cache[cachePathFor("o/a", "v1.2.0")].files

\* The versions and tags of the model of the form v<major>.<minor>.<patch>,
\* the leading v optional, and their numbers.
SemverOf ==
    [t \in {"v1.2.0", "v1.3.0", "v1.10.0", "v2.0.0", "1.3.0"} |->
        CASE t = "v1.2.0"  -> <<1, 2, 0>>
          [] t = "v1.3.0"  -> <<1, 3, 0>>
          [] t = "v1.10.0" -> <<1, 10, 0>>
          [] t = "v2.0.0"  -> <<2, 0, 0>>
          [] t = "1.3.0"   -> <<1, 3, 0>>]

IsSemver(t) == t \in DOMAIN SemverOf

\* x <= y in the numeric order of (major, minor, patch).
TripleLeq(x, y) ==
    \/ x[1] < y[1]
    \/ x[1] = y[1] /\ x[2] < y[2]
    \/ x[1] = y[1] /\ x[2] = y[2] /\ x[3] <= y[3]

\* The tags a git ls-remote command listed.
Listed(cmd) ==
    {t \in {Concat(cs) : cs \in Spellings} :
        \E i \in 1..Len(cmd.out) : cmd.out[i] = <<"sha", "refs/tags/" \o t>>}

\* The git ls-remote commands the request ran for path.
ListCmds(r, path) ==
    {i \in 1..Len(r.cmds) : r.cmds[i].cmd = "ls-remote" /\ r.cmds[i].path = path}

\* C18: for a requirement without replacement whose tags Update could list:
\* when its version is of the form v<major>.<minor>.<patch> and some listed
\* tag of that form has the same major, Update sets it to such a tag that is
\* greatest in the numeric order of (major, minor, patch); otherwise it leaves
\* the requirement as it is.  Update returns no error.
C18_UpdateSelection ==
    [][(resp'.op = "Update" /\ Parse(modFile).ok) =>
          LET old == Parse(modFile).mod
              new == Parse(modFile').mod
          IN  /\ resp'.code = "OK"
              /\ Parse(modFile').ok
              /\ Len(new.Require) = Len(old.Require)
              /\ \A i \in 1..Len(old.Require) :
                    LET path == old.Require[i].Path
                        cur  == old.Require[i].Version
                    IN  ~Replaced(modFile, path) =>
                          /\ Cardinality(ListCmds(resp', path)) = 1
                          /\ \A k \in ListCmds(resp', path) :
                                LET same == {t \in Listed(resp'.cmds[k]) :
                                                /\ IsSemver(cur) /\ IsSemver(t)
                                                /\ SemverOf[t][1] = SemverOf[cur][1]}
                                IN  resp'.cmds[k].ok =>
                                      IF same = {}
                                      THEN new.Require[i] = old.Require[i]
                                      ELSE /\ new.Require[i].Path = path
                                           /\ new.Require[i].Version \in same
                                           /\ \A t \in same :
                                                 TripleLeq(SemverOf[t],
                                                           SemverOf[new.Require[i].Version])
      ]_vars

\* The Update of the example: a requirement at v1.2.0 whose remote lists
\* v1.2.0, v1.3.0 and v2.0.0 is set to v1.3.0.
C18_Witness ==
    /\ resp.op = "Update"
    /\ resp.code = "OK"
    /\ \E i \in 1..Len(resp.updated), k \in 1..Len(resp.cmds) :
          /\ resp.updated[i].OldVersion = "v1.2.0"
          /\ resp.updated[i].NewVersion = "v1.3.0"
          /\ resp.cmds[k].path = resp.updated[i].Path
          /\ Listed(resp.cmds[k]) = {"v1.2.0", "v1.3.0", "v2.0.0"}
          /\ Requires(modFile, resp.updated[i].Path, "v1.3.0")

\* What git ls-remote answers for each path when the remotes that could not be
\* listed in request r list no tag instead.
Healed(r) ==
    [p \in Paths |->
        IF \E k \in ListCmds(r, p) : r.cmds[k].ok
        THEN [err |-> FALSE, lines |-> r.cmds[CHOOSE k \in ListCmds(r, p) : r.cmds[k].ok].out]
        ELSE LsRemote(<<>>)]

\* C19: an Update in which git ls-remote fails for some requirements returns
\* no error; each such requirement keeps its version and its cache entry and
\* is not in the result; the manifest, the cache and the result are what they
\* would be had those remotes answered with no tag.
C19_UpdateListFailure ==
    [][(resp'.op = "Update" /\ Parse(modFile).ok
            /\ \E k \in 1..Len(resp'.cmds) : ~resp'.cmds[k].ok) =>
          LET old == Parse(modFile).mod
              new == Parse(modFile').mod
              alt == ServerUpdate(Fs, Healed(resp'))
          IN  /\ resp'.code = "OK"
              /\ Len(new.Require) = Len(old.Require)
              /\ \A i \in 1..Len(old.Require) :
                    (\E k \in ListCmds(resp', old.Require[i].Path) : ~resp'.cmds[k].ok) =>
                        /\ new.Require[i] = old.Require[i]
                        /\ cache'[cachePathFor(old.Require[i].Path, old.Require[i].Version)]
                              = cache[cachePathFor(old.Require[i].Path, old.Require[i].Version)]
                        /\ \A j \in 1..Len(resp'.updated) :
                              resp'.updated[j].Path # old.Require[i].Path
              /\ modFile' = alt.fs.modFile
              /\ cache' = alt.fs.cache
              /\ resp'.updated = alt.updated
      ]_vars

\* An Update whose first requirement, fetched into the cache, has a remote that
\* cannot be listed and whose second requirement is updated.
C19_Witness ==
    /\ resp.op = "Update"
    /\ resp.code = "OK"
    /\ Len(resp.cmds) = 2
    /\ ~resp.cmds[1].ok
    /\ Len(resp.updated) = 1
    /\ resp.updated[1].Path = resp.cmds[2].path
    /\ Requires(modFile, resp.cmds[1].path, resp.cmds[1].version)
    /\ cache[cachePathFor(resp.cmds[1].path, resp.cmds[1].version)].exists

\* C20: Update leaves the root path, the replacements and the paths of the
\* requirements, in their order, as they are; the requirements whose version
\* differs afterwards are those of the result, with their old and new version;
\* with a result holon.mod is written anew from the manifest so changed, with
\* an empty result the file is left as it is.
C20_UpdatePersists ==
    [][(resp'.op = "Update" /\ resp'.code = "OK") =>
          LET old == Parse(modFile).mod
              new == Parse(modFile').mod
          IN  /\ Parse(modFile').ok
              /\ new.HolonPath = old.HolonPath
              /\ new.Replace = old.Replace
              /\ Len(new.Require) = Len(old.Require)
              /\ \A i \in 1..Len(old.Require) :
                    /\ new.Require[i].Path = old.Require[i].Path
                    /\ new.Require[i].Version # old.Require[i].Version
                          <=> \E j \in 1..Len(resp'.updated) :
                                 resp'.updated[j]
                                   = [Path |-> old.Require[i].Path,
                                      OldVersion |-> old.Require[i].Version,
                                      NewVersion |-> new.Require[i].Version]
              /\ \A j \in 1..Len(resp'.updated) :
                    \E i \in 1..Len(old.Require) :
                        /\ resp'.updated[j].Path = old.Require[i].Path
                        /\ resp'.updated[j].OldVersion = old.Require[i].Version
                        /\ resp'.updated[j].NewVersion # old.Require[i].Version
              /\ resp'.updated = <<>> => modFile' = modFile
              /\ resp'.updated # <<>> => modFile' = File(ModFileLines(new))
      ]_vars

\* An Update with an empty result, its requirements being at the latest tag or
\* replaced, on a holon.mod that still has the comment line of the user.
C20_Witness ==
    /\ resp.op = "Update"
    /\ resp.code = "OK"
    /\ resp.updated = <<>>
    /\ Len(resp.cmds) = 1
    /\ resp.cmds[1].ok
    /\ Len(Requirements) = 2
    /\ modFile.lines[1] = <<"//c">>
    /\ modFile # File(ModFileLines(Parse(modFile).mod))

\* The positions of the requirements of m that have no active replacement.
Unreplaced(m) == {i \in 1..Len(m.Require) : ResolvedPath(m, m.Require[i].Path) = ""}

\* The cache entry of a requirement.
CacheEntry(c, req) == DirAt(c, cachePathFor(req.Path, req.Version))

\* The directory of the vendor root a requirement is copied to.
VendorEntry(v, req) == v[filepathBase(req.Path)]

\* C21, as stated: Vendor runs no fetcher; when the cache entry of a
\* requirement without replacement is absent it fails with FailedPrecondition;
\* when all are cached it succeeds and the directory named by the last path
\* segment of each such requirement holds a copy of its cached content.
C21_Vendor ==
    [][resp'.op = "Vendor" /\ Parse(modFile).ok =>
          LET m == Parse(modFile).mod
              U == Unreplaced(m)
          IN  /\ resp'.cmds = <<>>
              /\ cache' = cache
              /\ (\E i \in U : ~CacheEntry(cache, m.Require[i]).exists)
                     => resp'.code = "FailedPrecondition"
              /\ (\A i \in U : CacheEntry(cache, m.Require[i]).exists)
                     => /\ resp'.code = "OK"
                        /\ \A i \in U :
                               /\ VendorEntry(vendor', m.Require[i]).exists
                               /\ VendorEntry(vendor', m.Require[i]).files
                                      = CacheEntry(cache, m.Require[i]).files
      ]_vars

\* C21, amended: the same, but the directory is a copy of the cached content
\* of a requirement only when no other requirement without replacement has
\* the same last path segment; with such requirements it holds every file of
\* the last of them, and of the others the files that one does not have.
C21_VendorDistinctNames ==
    [][resp'.op = "Vendor" /\ Parse(modFile).ok =>
          LET m == Parse(modFile).mod
              U == Unreplaced(m)
              Same(i) == {j \in U : filepathBase(m.Require[j].Path)
                                       = filepathBase(m.Require[i].Path)}
          IN  /\ resp'.cmds = <<>>
              /\ cache' = cache
              /\ (\E i \in U : ~CacheEntry(cache, m.Require[i]).exists)
                     => resp'.code = "FailedPrecondition"
              /\ (\A i \in U : CacheEntry(cache, m.Require[i]).exists)
                     => /\ resp'.code = "OK"
                        /\ \A i \in U :
                               /\ VendorEntry(vendor', m.Require[i]).exists
                               /\ Same(i) = {i} =>
                                      VendorEntry(vendor', m.Require[i]).files
                                          = CacheEntry(cache, m.Require[i]).files
                               /\ (\A j \in Same(i) : j <= i) =>
                                      CacheEntry(cache, m.Require[i]).files
                                          \subseteq VendorEntry(vendor', m.Require[i]).files
                               /\ \A f \in VendorEntry(vendor', m.Require[i]).files :
                                      \E j \in Same(i) :
                                          f \in CacheEntry(cache, m.Require[j]).files
      ]_vars

\* A Vendor that succeeded for one requirement and copied the files of its
\* snapshot to .holon/a.
C21_Witness ==
    /\ resp.op = "Vendor"
    /\ resp.code = "OK"
    /\ Len(resp.vendored) = 1
    /\ vendor["a"].exists
    /\ vendor["a"].files # {}
    /\ vendor["a"].files
           = CacheEntry(cache, [Path |-> resp.vendored[1].Path,
                                Version |-> resp.vendored[1].Version]).files

\* C22: after a successful Vendor every directory of the vendor root is named
\* by the last path segment of a current requirement without replacement, and
\* every file in it is a file of the cache entry of such a requirement:
\* nothing of an earlier Vendor for a requirement since removed, replaced or
\* given another version is left.
C22_VendorFromScratch ==
    resp.op = "Vendor" /\ resp.code = "OK" =>
        LET m == Parse(modFile).mod
            U == Unreplaced(m)
        IN  \A d \in DOMAIN vendor :
                vendor[d].exists =>
                    /\ \E i \in U : filepathBase(m.Require[i].Path) = d
                    /\ \A f \in vendor[d].files :
                           \E i \in U :
                               /\ filepathBase(m.Require[i].Path) = d
                               /\ f \in CacheEntry(cache, m.Require[i]).files

\* A successful Vendor of o/a alone in a project that required a before (its
\* holon.sum still records a): .holon/a holds the files of o/a only, not the
\* HOLON.md of a.
C22_Witness ==
    /\ resp.op = "Vendor"
    /\ resp.code = "OK"
    /\ Len(resp.vendored) = 1
    /\ resp.vendored[1].Path = "o/a"
    /\ Lookup(ParseSum(sumFile).sum, "a", "v1.2.0") # ""
    /\ vendor["a"].exists
    /\ \A f \in vendor["a"].files : f.rel # "HOLON.md"

\* C23: CleanCache succeeds, returns the path of the cache root and leaves no
\* directory below it; holon.mod, holon.sum and the vendor directory are as
\* they were; a second CleanCache in the state it leaves, where the cache root
\* is absent, succeeds too and changes nothing.
C23_CleanCache ==
    [][resp'.op = "CleanCache" =>
          /\ resp'.code = "OK"
          /\ resp'.cachePath = "~/.holon/cache"
          /\ \A d \in DOMAIN cache' : ~cache'[d].exists
          /\ modFile' = modFile
          /\ sumFile' = sumFile
          /\ vendor' = vendor
          /\ ServerCleanCache(Fs').code = "OK"
          /\ ServerCleanCache(Fs').cachePath = resp'.cachePath
          /\ ServerCleanCache(Fs').fs = Fs'
      ]_vars

\* A CleanCache that emptied the cache of a project whose holon.mod, holon.sum
\* and vendor directory hold a dependency.
C23_Witness ==
    /\ resp.op = "CleanCache"
    /\ resp.code = "OK"
    /\ \A d \in DOMAIN cache : ~cache[d].exists
    /\ Parse(modFile).ok
    /\ Len(Parse(modFile).mod.Require) > 0
    /\ Len(ParseSum(sumFile).sum.Entries) > 0
    /\ \E d \in DOMAIN vendor : vendor[d].exists /\ vendor[d].files # {}

\* The positions in a command log of the clones that failed.
FailedClones(cmds) == {k \in 1..Len(cmds) : cmds[k].cmd = "clone" /\ ~cmds[k].ok}

\* The position in m of the requirement a command was run for (0: none).
PositionOf(m, cmd) ==
    IF \E i \in 1..Len(m.Require) : m.Require[i].Path = cmd.path
    THEN CHOOSE i \in 1..Len(m.Require) : m.Require[i].Path = cmd.path
    ELSE 0

\* C24: a Pull in which a clone fails returns an error and no fetched list;
\* the failed clone is the last command it ran; the cache entry of every
\* requirement after the failing one in manifest order is as it was; and the
\* requirements cloned before it in the same Pull are in the cache.  A Pull
\* in which no clone fails does not return that error.
C24_PullAborts ==
    [][resp'.op = "Pull" /\ Parse(modFile).ok /\ ParseSum(sumFile).ok =>
          LET m    == Parse(modFile).mod
              cmds == resp'.cmds
          IN  /\ (resp'.code = "Internal") = (FailedClones(cmds) # {})
              /\ FailedClones(cmds) # {} =>
                     /\ FailedClones(cmds) = {Len(cmds)}
                     /\ resp'.fetched = <<>>
                     /\ \A i \in 1..Len(m.Require) :
                            i > PositionOf(m, cmds[Len(cmds)]) =>
                                CacheEntry(cache', m.Require[i])
                                    = CacheEntry(cache, m.Require[i])
                     /\ \A k \in 1..(Len(cmds) - 1) :
                            /\ PositionOf(m, cmds[k]) < PositionOf(m, cmds[Len(cmds)])
                            /\ ~DirAt(cache, cachePathFor(cmds[k].path, cmds[k].version)).exists
                            /\ DirAt(cache', cachePathFor(cmds[k].path, cmds[k].version))
                                   = Dir(RemoveGit(Remote(cmds[k].path, cmds[k].version)))
      ]_vars

\* A Pull that cloned its first requirement, failed to clone the second and
\* returned an error: the first is in the cache, the second is not.
C24_Witness ==
    /\ resp.op = "Pull"
    /\ resp.code = "Internal"
    /\ Len(resp.cmds) = 2
    /\ resp.cmds[1].ok
    /\ ~resp.cmds[2].ok
    /\ DirAt(cache, cachePathFor(resp.cmds[1].path, resp.cmds[1].version)).exists
    /\ ~DirAt(cache, cachePathFor(resp.cmds[2].path, resp.cmds[2].version)).exists

\* The positions 1..n that pass Test, in increasing order.
Positions(n, Test(_)) == SelectSeq([i \in 1..n |-> i], Test)

\* The positions in m of the requirements without replacement, in order.
UnreplacedInOrder(m) ==
    LET Free(i) == ResolvedPath(m, m.Require[i].Path) = ""
    IN  Positions(Len(m.Require), Free)

\* The positions in m of the requirements whose version differs in n.
ChangedInOrder(m, n) ==
    LET Changed(i) == m.Require[i].Version # n.Require[i].Version
    IN  Positions(Len(m.Require), Changed)

\* The commands of a log were run for requirements of m in manifest order.
InManifestOrder(m, cmds) ==
    \A j, k \in 1..Len(cmds) : j < k => PositionOf(m, cmds[j]) < PositionOf(m, cmds[k])

\* C25: the fetched list of a Pull that succeeds holds, in manifest order, one
\* entry for each requirement without replacement, cached before or not; the
\* updated list of an Update holds, in manifest order, one entry for each
\* requirement whose version it changed; and both run their external commands
\* in manifest order.
C25_ManifestOrder ==
    [][/\ (resp'.op = "Pull" /\ resp'.code = "OK") =>
            LET m  == Parse(modFile).mod
                us == UnreplacedInOrder(m)
            IN  /\ resp'.fetched =
                       [k \in 1..Len(us) |->
                           Dependency(m.Require[us[k]].Path, m.Require[us[k]].Version,
                                      cachePathFor(m.Require[us[k]].Path,
                                                   m.Require[us[k]].Version))]
                /\ InManifestOrder(m, resp'.cmds)
       /\ (resp'.op = "Update" /\ resp'.code = "OK") =>
            LET m  == Parse(modFile).mod
                n  == Parse(modFile').mod
                cs == ChangedInOrder(m, n)
            IN  /\ Len(n.Require) = Len(m.Require)
                /\ resp'.updated =
                       [k \in 1..Len(cs) |->
                           UpdatedDependency(m.Require[cs[k]].Path, m.Require[cs[k]].Version,
                                             n.Require[cs[k]].Version)]
                /\ InManifestOrder(m, resp'.cmds)
      ]_vars

\* A Pull that lists two requirements in manifest order, the first one cached
\* before the call and the second one cloned by it.
C25_Witness ==
    /\ resp.op = "Pull"
    /\ resp.code = "OK"
    /\ Len(resp.fetched) = 2
    /\ Len(resp.cmds) = 1
    /\ resp.cmds[1].path = resp.fetched[2].Path
    /\ Parse(modFile).mod.Require[1].Path = resp.fetched[1].Path
    /\ Parse(modFile).mod.Require[2].Path = resp.fetched[2].Path

\* An Update that changed the second of two requirements and not the first.
C25_WitnessUpdate ==
    /\ resp.op = "Update"
    /\ Len(resp.updated) = 1
    /\ Len(resp.cmds) = 2
    /\ Len(Parse(modFile).mod.Require) = 2
    /\ Parse(modFile).mod.Require[2].Path = resp.updated[1].Path
    /\ Parse(modFile).mod.Require[2].Version = resp.updated[1].NewVersion

\* The operations that load holon.mod.
LoadsMod == {"Add", "Remove", "Pull", "Update", "Verify", "Graph", "Vendor"}

\* The step loads holon.sum: Verify does, Pull does once holon.mod is parsed,
\* Add does once holon.mod is parsed and the snapshot is in the cache.
LoadsSum ==
    \/ resp'.op = "Verify"
    \/ resp'.op = "Pull" /\ Parse(modFile).ok
    \/ resp'.op = "Add" /\ Parse(modFile).ok /\ resp'.cachePath # ""

\* The file is there and does not parse.
MalformedMod(f) == f.exists /\ ~Parse(f).ok
MalformedSum(f) == f.exists /\ ~ParseSum(f).ok

\* C26: an operation that loads a malformed holon.mod or a malformed
\* holon.sum returns an error, does not crash, runs no external command and
\* leaves holon.mod, holon.sum, the cache and the vendor directory as they were.
C26_FaultsSurfaced ==
    [][(\/ resp'.op \in LoadsMod /\ MalformedMod(modFile)
        \/ LoadsSum /\ MalformedSum(sumFile)) =>
          /\ resp'.code \notin {"OK", "panic"}
          /\ resp'.cmds = <<>>
          /\ modFile' = modFile
          /\ sumFile' = sumFile
          /\ cache' = cache
          /\ vendor' = vendor
      ]_vars

\* The bytes hashDir feeds to the hash for a directory with these entries.
Stream(entries) == HashInput(WalkDir(RegularFiles(entries)))

\* C27: hashing a tree again gives the same digest; after one file is renamed
\* or one byte of one file is changed the hashed bytes, and so the digest,
\* differ; after an empty directory is added the digest is the same.
C27_HashDir ==
    [][/\ call'.op = "hashDir" => call'.digest = call'.was
       /\ call'.op \in {"rename", "change"} =>
              /\ Stream(call'.tree) # Stream(call'.before)
              /\ call'.digest # call'.was
       /\ call'.op = "mkdir" => call'.digest = call'.was
      ]_vars

\* The cache entries an Update reports as evicted: the old versions.
EvictedBy(updated) ==
    {cachePathFor(updated[k].Path, updated[k].OldVersion) : k \in 1..Len(updated)}

\* C28: for every {path, old, new} an Update reports, old and new differ, the
\* cache entry of (path, old) is absent after the call, and holon.mod as
\* written holds path at new at a position where it held path at old before;
\* every other cache entry that was there is still there.
C28_UpdateEvicts ==
    [][resp'.op = "Update" =>
          LET m == Parse(modFile).mod
              n == Parse(modFile').mod
          IN  /\ \A k \in 1..Len(resp'.updated) :
                     LET u == resp'.updated[k]
                     IN  /\ u.OldVersion # u.NewVersion
                         /\ ~cache'[cachePathFor(u.Path, u.OldVersion)].exists
                         /\ Len(n.Require) = Len(m.Require)
                         /\ \E i \in 1..Len(m.Require) :
                                /\ m.Require[i] = Require(u.Path, u.OldVersion)
                                /\ n.Require[i] = Require(u.Path, u.NewVersion)
              /\ \A d \in DOMAIN cache :
                     d \notin EvictedBy(resp'.updated) => cache'[d] = cache[d]
      ]_vars

\* An Update of the second of two requirements: its old version, recorded in
\* holon.sum by the fetch, is gone from the cache, the cache entry of the first
\* requirement is there, and holon.mod holds the new version in second place.
C28_Witness ==
    /\ resp.op = "Update"
    /\ Len(resp.updated) = 1
    /\ Len(Parse(modFile).mod.Require) = 2
    /\ Parse(modFile).mod.Require[2]
           = Require(resp.updated[1].Path, resp.updated[1].NewVersion)
    /\ Lookup(ParseSum(sumFile).sum, resp.updated[1].Path, resp.updated[1].OldVersion) # ""
    /\ ~cache[cachePathFor(resp.updated[1].Path, resp.updated[1].OldVersion)].exists
    /\ CacheEntry(cache, Parse(modFile).mod.Require[1]).exists

\* C29: in the answer of Graph a requirement with an active replacement has
\* its edge from the root, and no edge leaves it.
C29_GraphReplaced ==
    resp.op = "Graph" /\ resp.code = "OK" =>
        LET m == Parse(modFile).mod
        IN  \A i \in 1..Len(m.Require) :
                ResolvedPath(m, m.Require[i].Path) # "" =>
                    /\ \E k \in 1..Len(resp.edges) :
                           resp.edges[k] = Edge(m.HolonPath, m.Require[i].Path,
                                                m.Require[i].Version)
                    /\ \A k \in 1..Len(resp.edges) :
                           resp.edges[k].From # m.Require[i].Path

\* Both Add requests have returned.
AddsDone == \A p \in Adders : call.pc[p] = "done"

\* C30: when neither of two Add requests for distinct paths has parsed
\* holon.mod while the other held a ModFile it had not written yet (they ran
\* one after the other), holon.mod requires both paths in the end.
C30_AddsInTurn ==
    AddsDone /\ ~call.overlap =>
        \A p \in Adders : Requires(modFile, AdderPath[p], call.version[p])

\* Two Add requests that both parsed holon.mod before either wrote it, and
\* have returned: holon.mod lacks the path of one of them.
C30_Witness ==
    /\ AddsDone
    /\ call.overlap
    /\ Parse(modFile).ok
    /\ \E p \in Adders : FirstRequire(Parse(modFile).mod, AdderPath[p]) = 0
    /\ \E p \in Adders : Requires(modFile, AdderPath[p], call.version[p])

\* x < y in the numeric order of (major, minor, patch).
TripleLess(x, y) == TripleLeq(x, y) /\ x # y

\* C31: in every entry of the list Update returns, the new version is
\* strictly greater than the old one in the numeric order of (major, minor,
\* patch), whatever tags the remote lists.
C31_UpdateRaises ==
    [][resp'.op = "Update" =>
          \A i \in 1..Len(resp'.updated) :
              LET u == resp'.updated[i]
              IN  /\ IsSemver(u.OldVersion)
                  /\ IsSemver(u.NewVersion)
                  /\ TripleLess(SemverOf[u.OldVersion], SemverOf[u.NewVersion])
      ]_vars

\* C32: after an Init, Add, Remove or Update that returned success, whatever
\* its argument strings, Parse of holon.mod succeeds; after Add it holds the
\* requirement added, after Remove no requirement of the path removed, and
\* after Update each requirement updated at its new version.
C32_StaysLoadable ==
    [][(resp'.op \in {"Init", "Add", "Remove", "Update"} /\ resp'.code = "OK") =>
          /\ Parse(modFile').ok
          /\ resp'.op = "Add" => Requires(modFile', resp'.path, resp'.version)
          /\ resp'.op = "Remove" =>
                FirstRequire(Parse(modFile').mod, resp'.path) = 0
          /\ resp'.op = "Update" =>
                \A i \in 1..Len(resp'.updated) :
                    Requires(modFile', resp'.updated[i].Path,
                             resp'.updated[i].NewVersion)
      ]_vars

\* A Pull that succeeded on a manifest without replacements has just returned.
PulledClean ==
    /\ resp.op = "Pull"
    /\ resp.code = "OK"
    /\ Parse(modFile).ok
    /\ Parse(modFile).mod.Replace = <<>>

\* The holon.sum entries whose path and version, the "/HOLON.md" suffix
\* put aside, holon.mod does not require.
StaleEntries ==
    LET es == ParseSum(sumFile).sum.Entries
    IN  {i \in 1..Len(es) :
            ~Requires(modFile, es[i].Path, TrimSuffixHolonMD(es[i].Version).version)}

\* C33 as stated: a Verify that follows a successful Pull on a manifest
\* without replacements returns ok = true.
C33_PullThenVerify ==
    [][(PulledClean /\ resp'.op = "Verify") => (resp'.code = "OK" /\ resp'.ok)]_vars

\* C33: a Verify that follows a successful Pull on a manifest without
\* replacements reports no problem for an entry of a current requirement: it
\* returns ok = true when holon.sum has no entry left by a removed or
\* updated requirement, and each problem it reports is "not in cache" for
\* such an entry.
C33_PullThenVerifyCurrent ==
    [][(PulledClean /\ resp'.op = "Verify") =>
          /\ resp'.code = "OK"
          /\ StaleEntries = {} => resp'.ok
          /\ \A k \in 1..Len(resp'.errors) :
                /\ resp'.errors[k].kind = "not in cache"
                /\ ~Requires(modFile, resp'.errors[k].path,
                             TrimSuffixHolonMD(resp'.errors[k].version).version)
      ]_vars

\* Verify returned ok after a Pull that cloned a snapshot again and recorded
\* both of its hashes.
C33_Witness ==
    /\ resp.op = "Verify"
    /\ resp.code = "OK"
    /\ resp.ok
    /\ Requires(modFile, "a", "v1.3.0")
    /\ cache[cachePathFor("a", "v1.3.0")].exists
    /\ Len(ParseSum(sumFile).sum.Entries) >= 2

\* What Verify reports for the holon.sum entry of a v1, recorded when the
\* snapshot held the entries before, now that it holds the entries tree.
VerifyAfter(before, tree) ==
    VerifyEntry([d \in {cachePathFor("a", "v1")} |-> Dir(RegularFiles(tree))],
                SumEntry("a", "v1", "h1:" \o hashEntries(before)))

\* C34: when the regular files of a cached snapshot, as pairs of relative
\* path and content, are not those hashed when its holon.sum entry was
\* recorded, the bytes fed to the hash differ and Verify reports a hash
\* mismatch for the entry.
C34_VerifyDetects ==
    RegularFiles(call.tree) # RegularFiles(call.before) =>
        /\ Stream(call.tree) # Stream(call.before)
        /\ Len(VerifyAfter(call.before, call.tree)) = 1
        /\ VerifyAfter(call.before, call.tree)[1].kind = "mismatch"

\* C35: a Vendor that fails with FailedPrecondition leaves the vendor
\* directory as it was before the call.
C35_FailedVendorKeeps ==
    [][(resp'.op = "Vendor" /\ resp'.code = "FailedPrecondition") => vendor' = vendor]_vars

\* C36: a Pull that fails because a clone fails leaves holon.sum as it was,
\* whatever it cloned and hashed before the failure.
C36_FailedPullKeepsSum ==
    [][(resp'.op = "Pull" /\ FailedClones(resp'.cmds) # {}) =>
          /\ resp'.code = "Internal"
          /\ sumFile' = sumFile
      ]_vars

\* A Pull that cloned and hashed its first requirement and failed at the
\* second: the snapshot of the first is cached and holon.sum has no entry of it.
C36_Witness ==
    /\ resp.op = "Pull"
    /\ resp.code = "Internal"
    /\ Len(resp.cmds) = 2
    /\ resp.cmds[1].ok
    /\ FailedClones(resp.cmds) = {2}
    /\ hashDir(DirAt(cache, cachePathFor(resp.cmds[1].path, resp.cmds[1].version))) # ""
    /\ Lookup(ParseSum(sumFile).sum, resp.cmds[1].path, resp.cmds[1].version) = ""

\* The cache entries of the new versions in an updated list.
NewEntries(updated) ==
    {cachePathFor(updated[k].Path, updated[k].NewVersion) : k \in 1..Len(updated)}

C38_ReadOnly ==
    [][resp'.op \in {"Verify", "Graph"} =>
          /\ modFile' = modFile
          /\ sumFile' = sumFile
          /\ cache' = cache
          /\ vendor' = vendor
      ]_vars

\* Verify has reported a problem in a project with a holon.mod, a holon.sum
\* and a vendor directory.
C38_Witness ==
    /\ resp.op = "Verify"
    /\ resp.code = "OK"
    /\ ~resp.ok
    /\ Len(resp.errors) > 0
    /\ modFile.exists
    /\ sumFile.exists
    /\ \E d \in DOMAIN vendor : vendor[d].exists

\* Verify and Graph have returned an error: holon.sum or holon.mod is malformed.
C38_WitnessFails ==
    /\ resp.op \in {"Verify", "Graph"}
    /\ resp.code = "NotFound"
    /\ MalformedSum(sumFile) \/ MalformedMod(modFile)

====
